---- MODULE Spec2Model ----
(***************************************************************************)
(* File index, primary-file resolver, batch mutator and credential check   *)
(* of the media server: internal/query/files.go, internal/api/batch.go     *)
(* and the user entity.                                                    *)
(*                                                                         *)
(* The relational store is the state.  Db() is the soft-delete scoped      *)
(* handle: every statement issued through it on a table that carries a     *)
(* deleted_at column also carries "deleted_at IS NULL"; UnscopedDb() and   *)
(* Db().Unscoped() bypass that filter (files.go:152,163, batch.go:115).    *)
(* Every function is a process: one action per round trip to the store,   *)
(* its position kept in the record of the call.  No function runs in a     *)
(* transaction or under a lock, so the statements of calls in progress     *)
(* interleave.  Every store statement has a failing outcome, whether the   *)
(* code reads its error or not; a statement that fails changes no row.     *)
(***************************************************************************)
EXTENDS Integers, Sequences, FiniteSets, TLC

VARIABLES
    files,        \* files table: file_uid -> row
    duplicates,   \* duplicates table (the duplicate ledger): set of rows
    photos,       \* photos table: photo_uid -> row
    albums,       \* albums table: set of album_uid
    photoAlbums,  \* photos_albums join table: set of rows
    labels,       \* labels table: set of label_uid
    users,        \* users table: id -> row
    passwords,    \* passwords table: uid -> stored password
    defaults,     \* the package variables Admin, UnknownUser and Guest
    calls,        \* number of calls begun
    last          \* the calls in progress or returned: inputs, position, outcome

vars == <<files, duplicates, photos, albums, photoAlbums, labels, users, passwords, defaults,
         calls, last>>

\* ------------------------------------------------------------------ bounds
MaxWidth == 2     \* file_width ranges over 1..MaxWidth
MaxLedger == 2    \* the duplicate ledger holds at most MaxLedger rows
MaxChecks == 3    \* calls of the user entity begun in one behaviour
MaxCommits == 2   \* statements other writers commit in one behaviour

\* ------------------------------------------------------------ identifiers
FileUIDs == {"f1", "f2", "f3"}
FilePhotoUIDs == {"p1", "p2"}
FileTypes == {"jpg", "mp4"}

\* A string holding a path is the sequence of its "/"-separated segments:
\* "A/b.jpg" is <<"A", "b.jpg">>, "" is <<"">>, "/" is <<"", "">>.
EmptyStr == <<"">>

\* ------------------------------------------------- files.go: the files table
FileRow(photo, missing, deleted, type, width, primary, root, name, modTime) ==
    [photo |-> photo, missing |-> missing, deleted |-> deleted, type |-> type,
     width |-> width, primary |-> primary, root |-> root, name |-> name,
     modTime |-> modTime, error |-> ""]

\* Rows the scoped handle Db() sees.
ScopedFiles(fs) == {u \in DOMAIN fs : ~fs[u].deleted}

PrimariesOf(fs, photoUID) ==
    {u \in DOMAIN fs : fs[u].photo = photoUID /\ fs[u].primary}

\* The two tables at one instant.
StoreState(fs, dups) == [files |-> fs, duplicates |-> dups]

\* ----------------------------------------------- files.go:96 and files.go:131
\* UPDATE files SET file_root = ?, file_name = ?, file_missing = 0,
\* deleted_at = NULL WHERE file_root = ? AND file_name = ?
RenameRows(fs, srcRoot, srcName, destRoot, destName) ==
    [u \in DOMAIN fs |->
        IF fs[u].root = srcRoot /\ fs[u].name = srcName
        THEN [fs[u] EXCEPT !.root = destRoot, !.name = destName,
                           !.missing = FALSE, !.deleted = FALSE]
        ELSE fs[u]]

\* Db().Model(entity.File{}).Where("file_uid = ?", fileUID).Update("file_error", errorString)
SetErrorColumn(fs, fileUID, errorString) ==
    [u \in DOMAIN fs |->
        IF u \in ScopedFiles(fs) /\ u = fileUID
        THEN [fs[u] EXCEPT !.error = errorString]
        ELSE fs[u]]

\* The last call of another writer and what it returned.
WriterCall(op, args, err) == [op |-> op, args |-> args, err |-> err]

NoWriter == WriterCall("none", <<>>, "")

\* Every record `last` of a specification over the files table has the
\* fields writer (the last call of another writer) and stores (the states
\* of the store from the start on, one more per statement another writer
\* committed).
Committed(call) ==
    [last EXCEPT !.writer = call,
                 !.stores = Append(@, StoreState(files', duplicates'))]

\* RenameFile(srcRoot, srcName, destRoot, destName)
RenameFile(srcRoot, srcName, destRoot, destName, fault) ==
    LET args == <<srcRoot, srcName, destRoot, destName>> IN
    /\ UNCHANGED <<users, passwords, defaults, duplicates, photos, albums, photoAlbums, labels, calls>>
    /\ IF srcRoot = EmptyStr \/ srcName = EmptyStr
            \/ destRoot = EmptyStr \/ destName = EmptyStr
       THEN /\ files' = files
            /\ last' = [last EXCEPT !.writer = WriterCall("RenameFile", args, "can't rename")]
       ELSE IF fault
       THEN /\ files' = files
            /\ last' = [last EXCEPT !.writer = WriterCall("RenameFile", args, "store error")]
       ELSE /\ files' = RenameRows(files, srcRoot, srcName, destRoot, destName)
            /\ last' = Committed(WriterCall("RenameFile", args, ""))

\* SetFileError(fileUID, errorString): a store error is logged only.
SetFileError(fileUID, errorString, fault) ==
    LET args == <<fileUID, errorString>> IN
    /\ UNCHANGED <<users, passwords, defaults, duplicates, photos, albums, photoAlbums, labels, calls>>
    /\ IF fault
       THEN /\ files' = files
            /\ last' = [last EXCEPT !.writer = WriterCall("SetFileError", args, "")]
       ELSE /\ files' = SetErrorColumn(files, fileUID, errorString)
            /\ last' = Committed(WriterCall("SetFileError", args, ""))

\* ---------------------------------------------------------- files.go:105
\* The same query without the file_type condition.
PrimaryCandidates_AnyType(fs, photoUID) ==
    {u \in ScopedFiles(fs) : fs[u].photo = photoUID /\ ~fs[u].missing}

\* WHERE photo_uid = ? AND file_missing = 0 AND file_type = 'jpg'
PrimaryCandidates(fs, photoUID) ==
    {u \in ScopedFiles(fs) :
        /\ fs[u].photo = photoUID
        /\ ~fs[u].missing
        /\ fs[u].type = "jpg"}

\* ORDER BY file_width DESC LIMIT 1: one of the rows of greatest width
\* (the store fixes no order among equal widths).
WidestCandidates(fs, photoUID) ==
    {u \in PrimaryCandidates(fs, photoUID) :
        \A v \in PrimaryCandidates(fs, photoUID) : fs[v].width <= fs[u].width}

\* The update without the photo_uid condition.
ClearOthers_OfEveryPhoto(fs, photoUID, fileUID) ==
    [u \in DOMAIN fs |->
        IF u \in ScopedFiles(fs) /\ u # fileUID
        THEN [fs[u] EXCEPT !.primary = FALSE]
        ELSE fs[u]]

\* UPDATE files SET file_primary = 0 WHERE photo_uid = ? AND file_uid <> ?
ClearOthers(fs, photoUID, fileUID) ==
    [u \in DOMAIN fs |->
        IF u \in ScopedFiles(fs) /\ fs[u].photo = photoUID /\ u # fileUID
        THEN [fs[u] EXCEPT !.primary = FALSE]
        ELSE fs[u]]

\* One statement that sets the chosen file and clears the others.
SetChosen_AndClearOthers(fs, photoUID, fileUID) ==
    [u \in DOMAIN fs |->
        IF u \in ScopedFiles(fs) /\ fs[u].photo = photoUID
        THEN [fs[u] EXCEPT !.primary = (u = fileUID)]
        ELSE fs[u]]

\* UPDATE files SET file_primary = 1 WHERE photo_uid = ? AND file_uid = ?
SetChosen(fs, photoUID, fileUID) ==
    [u \in DOMAIN fs |->
        IF u \in ScopedFiles(fs) /\ fs[u].photo = photoUID /\ u = fileUID
        THEN [fs[u] EXCEPT !.primary = TRUE]
        ELSE fs[u]]

\* One call of SetPhotoPrimary(photoUID, fileUID).  pc is its position:
\* "start", "chosen" (a file is chosen, before files.go:126), "cleared"
\* (between 126 and 127) or "done" (returned err).  failed are the statements
\* of the call that met a store error, between the files of the photo that
\* were primary between its two updates.
PrimaryCall(photoUID, fileUID, chosen, pc, err, failed, between) ==
    [photoUID |-> photoUID, fileUID |-> fileUID, chosen |-> chosen, pc |-> pc,
     err |-> err, failed |-> failed, between |-> between]

\* The calls of SetPhotoPrimary in progress.  overlapped: a call issued its
\* first update while another stood between its two updates; order: the
\* calls in the order they returned.
PrimaryCalls(call, overlapped, order, stores, writer) ==
    [op |-> "SetPhotoPrimary", call |-> call, overlapped |-> overlapped,
     order |-> order, stores |-> stores, writer |-> writer]

PrimaryReturned(i, err, failed) ==
    [last EXCEPT !.call[i].pc = "done", !.call[i].err = err,
                 !.call[i].failed = failed, !.order = Append(@, i)]

\* files.go:106-124: the checks of the arguments and, without candidate, the
\* query for the widest JPEG.
StepChoose(i, fault) ==
    LET c == last.call[i] IN
    /\ c.pc = "start"
    /\ fault = "query" => (c.photoUID # "" /\ c.fileUID = "")
    /\ UNCHANGED <<users, passwords, defaults, files, duplicates, photos, albums, photoAlbums, labels, calls>>
    /\ IF c.photoUID = ""
       THEN last' = PrimaryReturned(i, "photo uid is missing", c.failed)
       ELSE IF c.fileUID # ""
       THEN last' = [last EXCEPT !.call[i].pc = "chosen", !.call[i].chosen = c.fileUID]
       ELSE IF fault = "query"
       THEN last' = PrimaryReturned(i, "store error", c.failed \cup {"query"})
       ELSE IF PrimaryCandidates(files, c.photoUID) = {}
       THEN last' = PrimaryReturned(i, "can't find primary file", c.failed)
       ELSE \E chosen \in WidestCandidates(files, c.photoUID) :
                IF chosen = ""
                THEN last' = PrimaryReturned(i, "file uid is missing", c.failed)
                ELSE last' = [last EXCEPT !.call[i].pc = "chosen",
                                          !.call[i].chosen = chosen]

\* files.go:126: the result of the statement is not looked at.
StepClear(i, fault) ==
    LET c == last.call[i] IN
    /\ c.pc = "chosen"
    /\ files' = IF fault = "clear" THEN files
                ELSE ClearOthers(files, c.photoUID, c.chosen)
    /\ last' = [last EXCEPT !.call[i].pc = "cleared",
                            !.call[i].failed = IF fault = "clear" THEN @ \cup {"clear"} ELSE @,
                            !.call[i].between = PrimariesOf(files', c.photoUID),
                            !.overlapped = @ \/ \E j \in DOMAIN last.call \ {i} :
                                                    last.call[j].pc = "cleared"]
    /\ UNCHANGED <<users, passwords, defaults, duplicates, photos, albums, photoAlbums, labels, calls>>

\* files.go:127, and the return of its error.
StepSet(i, fault) ==
    LET c == last.call[i] IN
    /\ c.pc = "cleared"
    /\ files' = IF fault = "set" THEN files
                ELSE SetChosen(files, c.photoUID, c.chosen)
    /\ last' = PrimaryReturned(i, IF fault = "set" THEN "store error" ELSE "",
                               IF fault = "set" THEN c.failed \cup {"set"} ELSE c.failed)
    /\ UNCHANGED <<users, passwords, defaults, duplicates, photos, albums, photoAlbums, labels, calls>>

\* SetPhotoPrimary(photoUID, fileUID), as run by caller i.
SetPhotoPrimary(i) ==
    \/ \E fault \in {"none", "query"} : StepChoose(i, fault)
    \/ \E fault \in {"none", "clear"} : StepClear(i, fault)
    \/ \E fault \in {"none", "set"} : StepSet(i, fault)

\* --------------------------------------------------- resolver: the store
\* f1 is a file of p1 of either type, f2 a JPEG of p1 that may be missing or
\* soft-deleted, f3 a plain JPEG of p1 or of p2; the third file may be stored
\* with an empty file_uid.
ResolverRows(u) ==
    IF u = "f1"
    THEN UNION {{FileRow("p1", m, FALSE, t, w, pr, <<"A">>, <<"f1">>, 100) :
                    m \in BOOLEAN, pr \in BOOLEAN} :
                t \in FileTypes, w \in 1..MaxWidth}
    ELSE IF u = "f2"
    THEN UNION {{FileRow("p1", m, d, "jpg", w, pr, <<"A">>, <<"f2">>, 100) :
                    m \in BOOLEAN, pr \in BOOLEAN} :
                d \in BOOLEAN, w \in 1..MaxWidth}
    ELSE {FileRow(p, FALSE, FALSE, "jpg", 1, pr, <<"A">>, <<"f3">>, 100) :
            p \in FilePhotoUIDs, pr \in BOOLEAN}

ResolverStores ==
    UNION {{fs \in [dom -> UNION {ResolverRows(u) : u \in dom}] :
                /\ \A u \in dom : fs[u] \in ResolverRows(u)
                /\ \A p \in FilePhotoUIDs : Cardinality(PrimariesOf(fs, p)) <= 1} :
           dom \in {FileUIDs, {"f1", "f2", ""}}}

\* One caller, any store of the resolver, any arguments.
InitPrimary ==
    /\ files \in ResolverStores
    /\ duplicates = {}
    /\ photos = <<>>
    /\ albums = {}
    /\ users = <<>>
    /\ passwords = <<>>
    /\ defaults = <<>>
    /\ photoAlbums = {}
    /\ labels = {}
    /\ calls = 1
    /\ \E photoUID \in FilePhotoUIDs \cup {""}, fileUID \in FileUIDs \cup {"", "fx"} :
        last = PrimaryCalls([i \in {1} |->
                                PrimaryCall(photoUID, fileUID, "", "start", "", {}, {})],
                            FALSE, <<>>, <<StoreState(files, duplicates)>>, NoWriter)

NextPrimary == SetPhotoPrimary(1)

SpecPrimary == InitPrimary /\ [][NextPrimary]_vars

\* ------------------------------- files.go:105 under concurrent callers
\* Two callers run SetPhotoPrimary for the same photo, each with its own
\* candidate, while other writers rename a file or record a file error.
Callers == {1, 2}

RacePhotoUID == "p1"

\* Stores of the race: the resolver's rows of least width, f1 a JPEG that
\* is not missing.
RaceStores ==
    {fs \in [FileUIDs -> UNION {ResolverRows(u) : u \in FileUIDs}] :
        /\ \A u \in FileUIDs : fs[u] \in ResolverRows(u) /\ fs[u].width = 1
        /\ fs["f1"].type = "jpg" /\ ~fs["f1"].missing
        /\ \A p \in FilePhotoUIDs : Cardinality(PrimariesOf(fs, p)) <= 1}

InitRace ==
    /\ files \in RaceStores
    /\ duplicates = {}
    /\ photos = <<>>
    /\ albums = {}
    /\ users = <<>>
    /\ passwords = <<>>
    /\ defaults = <<>>
    /\ photoAlbums = {}
    /\ labels = {}
    /\ calls = 2
    /\ \E c1 \in FileUIDs : \E c2 \in FileUIDs \ {c1} :
        last = PrimaryCalls([i \in Callers |->
                                PrimaryCall(RacePhotoUID, IF i = 1 THEN c1 ELSE c2,
                                            "", "start", "", {}, {})],
                            FALSE, <<>>, <<StoreState(files, duplicates)>>, NoWriter)

\* The other writers of the race: a rename of f2, which brings a missing or
\* soft-deleted row back, and an error recorded for f1.
\* Fewer than MaxCommits of their statements commit in one behaviour.
RaceRename ==
    /\ Len(last.stores) < MaxCommits
    /\ \E srcName \in {<<"f2">>, EmptyStr}, fault \in BOOLEAN :
            RenameFile(<<"A">>, srcName, <<"A">>, <<"g2">>, fault)

RaceSetFileError ==
    /\ Len(last.stores) < MaxCommits
    /\ \E fault \in BOOLEAN : SetFileError("f1", "broken", fault)

NextRace ==
    \/ \E i \in Callers : SetPhotoPrimary(i)
    \/ RaceRename
    \/ RaceSetFileError

SpecRace == InitRace /\ [][NextRace]_vars

\* ------------------------------------------------------ path.Join (Go)
\* Clean, on a path's segments: empty segments (doubled and trailing
\* slashes) and "." are dropped, ".." removes the segment before it, or
\* stays when the path is not rooted and nothing is left to remove.
RECURSIVE CleanSegs(_, _, _)
CleanSegs(segs, out, rooted) ==
    IF segs = <<>> THEN out
    ELSE LET h == Head(segs)
             t == Tail(segs)
         IN  IF h = "" \/ h = "." THEN CleanSegs(t, out, rooted)
             ELSE IF h = ".."
             THEN IF out # <<>> /\ out[Len(out)] # ".."
                  THEN CleanSegs(t, SubSeq(out, 1, Len(out) - 1), rooted)
                  ELSE IF rooted THEN CleanSegs(t, out, rooted)
                  ELSE CleanSegs(t, Append(out, h), rooted)
             ELSE CleanSegs(t, Append(out, h), rooted)

Clean(s) ==
    LET rooted == Len(s) >= 2 /\ s[1] = ""
        out == CleanSegs(s, <<>>, rooted)
    IN  IF rooted THEN (IF out = <<>> THEN <<"", "">> ELSE <<"">> \o out)
        ELSE IF out = <<>> THEN <<".">> ELSE out

\* path.Join(root, name): the non-empty elements joined by "/", cleaned; ""
\* when both are empty.
Join(root, name) ==
    IF root = EmptyStr /\ name = EmptyStr THEN EmptyStr
    ELSE IF root = EmptyStr THEN Clean(name)
    ELSE IF name = EmptyStr THEN Clean(root)
    ELSE Clean(root \o name)

\* ---------------------------------------------------------- files.go:140
\* SELECT ... FROM files WHERE file_missing = 0 AND deleted_at IS NULL
IndexedRows(fs) ==
    {[root |-> fs[u].root, name |-> fs[u].name, modTime |-> fs[u].modTime] :
        u \in {v \in DOMAIN fs : ~fs[v].missing /\ ~fs[v].deleted}}

RowKeys(rows) == {Join(r.root, r.name) : r \in rows}

\* An overlay in which an entry already present is kept.
Overlay_KeepsOld(base, rows) ==
    {m \in [DOMAIN base \cup RowKeys(rows) -> {r.modTime : r \in rows} \cup {base[k] : k \in DOMAIN base}] :
        \A k \in DOMAIN m :
            IF k \in DOMAIN base THEN m[k] = base[k]
            ELSE \E r \in rows : Join(r.root, r.name) = k /\ m[k] = r.modTime}

\* for _, row := range rows { result[path.Join(...)] = row.ModTime }: the
\* maps the loop can leave, the store fixing no order among the rows.  Of
\* the rows that share a key any one may come last.
Overlay(base, rows) ==
    {m \in [DOMAIN base \cup RowKeys(rows) -> {r.modTime : r \in rows} \cup {base[k] : k \in DOMAIN base}] :
        \A k \in DOMAIN m :
            IF k \in RowKeys(rows)
            THEN \E r \in rows : Join(r.root, r.name) = k /\ m[k] = r.modTime
            ELSE m[k] = base[k]}

EmptyMap == [k \in {} |-> 0]

\* The maps IndexedFiles returns when both statements read the store
\* (fs, dups): ledger rows overlaid by the indexed file rows.
Snapshots(fs, dups) ==
    UNION {Overlay(ledger, IndexedRows(fs)) : ledger \in Overlay(EmptyMap, dups)}

\* One call of IndexedFiles().  pc is its position: "start" (before
\* files.go:152), "ledger" (the loop of 156-158 done, before 163) or "done"
\* (returned result, err); stores and writer as for the resolver.
IndexCall(pc, result, err, stores, writer) ==
    [op |-> "IndexedFiles", pc |-> pc, result |-> result, err |-> err,
     stores |-> stores, writer |-> writer]

\* files.go:152-158
ReadLedger(fault) ==
    /\ last.op = "IndexedFiles"
    /\ last.pc = "start"
    /\ IF fault = "duplicates"
       THEN last' = [last EXCEPT !.pc = "done", !.err = "store error"]
       ELSE \E ledger \in Overlay(EmptyMap, duplicates) :
                last' = [last EXCEPT !.pc = "ledger", !.result = ledger]
    /\ UNCHANGED <<users, passwords, defaults, files, duplicates, photos, albums, photoAlbums, labels, calls>>

\* files.go:163-171
ReadFiles(fault) ==
    /\ last.op = "IndexedFiles"
    /\ last.pc = "ledger"
    /\ IF fault = "files"
       THEN last' = [last EXCEPT !.pc = "done", !.err = "store error"]
       ELSE \E result \in Overlay(last.result, IndexedRows(files)) :
                last' = [last EXCEPT !.pc = "done", !.result = result]
    /\ UNCHANGED <<users, passwords, defaults, files, duplicates, photos, albums, photoAlbums, labels, calls>>

\* IndexedFiles()
IndexedFiles ==
    \/ \E fault \in {"none", "duplicates"} : ReadLedger(fault)
    \/ \E fault \in {"none", "files"} : ReadFiles(fault)

\* ------------------------------------------------ index builder: the store
ModTimes == {100, 200}
LedgerRoots == {<<"A">>, <<"A", "B">>}
FileRoots == LedgerRoots \cup {EmptyStr}
FileNames == {<<"b.jpg">>, <<"B", "b.jpg">>}

LedgerRows == {[root |-> r, name |-> n, modTime |-> t] :
                r \in LedgerRoots, n \in FileNames, t \in ModTimes}

\* f1 lies anywhere, f2 under root A with modification time 200; both in
\* every state of the missing flag and the soft-delete timestamp.
IndexRows(u) ==
    IF u = "f1"
    THEN UNION {{FileRow("p1", m, d, "jpg", 1, FALSE, r, n, t) :
                    m \in BOOLEAN, d \in BOOLEAN, t \in ModTimes} :
                r \in FileRoots, n \in FileNames}
    ELSE {FileRow("p1", m, d, "jpg", 1, FALSE, <<"A">>, n, 200) :
            m \in BOOLEAN, d \in BOOLEAN, n \in FileNames}

IndexFileUIDs == {"f1", "f2"}

InitIndex ==
    /\ files \in {fs \in [IndexFileUIDs -> UNION {IndexRows(u) : u \in IndexFileUIDs}] :
                    \A u \in IndexFileUIDs : fs[u] \in IndexRows(u)}
    /\ duplicates \in {d \in SUBSET LedgerRows : Cardinality(d) <= MaxLedger}
    /\ photos = <<>>
    /\ albums = {}
    /\ users = <<>>
    /\ passwords = <<>>
    /\ defaults = <<>>
    /\ photoAlbums = {}
    /\ labels = {}
    /\ calls = 1
    /\ last = IndexCall("start", EmptyMap, "", <<StoreState(files, duplicates)>>, NoWriter)

NextIndex == IndexedFiles

SpecIndex == InitIndex /\ [][NextIndex]_vars

\* ------------------------------ files.go:149-171 under concurrent writers
\* IndexedFiles issues two statements, one per table, outside any
\* transaction; other writers commit to either table at any moment.
RaceLedgerRows == {r \in LedgerRows : r.root = <<"A">>}

RaceFileRows ==
    {FileRow("p1", m, d, "jpg", 1, FALSE, <<"A">>, n, t) :
        m \in BOOLEAN, d \in BOOLEAN, n \in FileNames, t \in ModTimes}

InitIndexRace ==
    /\ files \in [{"f1"} -> RaceFileRows]
    /\ duplicates \in {d \in SUBSET RaceLedgerRows : Cardinality(d) <= MaxLedger}
    /\ photos = <<>>
    /\ albums = {}
    /\ users = <<>>
    /\ passwords = <<>>
    /\ defaults = <<>>
    /\ photoAlbums = {}
    /\ labels = {}
    /\ calls = 1
    /\ last = IndexCall("start", EmptyMap, "", <<StoreState(files, duplicates)>>, NoWriter)

\* Another writer commits an insert into or a delete from the duplicates
\* table while the call is in progress.
CommitLedger ==
    /\ last.pc # "done"
    /\ Len(last.stores) <= MaxCommits
    /\ \E r \in RaceLedgerRows :
        /\ duplicates' = IF r \in duplicates THEN duplicates \ {r} ELSE duplicates \cup {r}
        /\ Cardinality(duplicates') <= MaxLedger
        /\ files' = files
        /\ last' = Committed(WriterCall("duplicates", <<r>>, ""))
    /\ UNCHANGED <<users, passwords, defaults, photos, albums, photoAlbums, labels, calls>>

\* Another caller renames a file while the call is in progress.
IndexRaceRename ==
    /\ last.pc # "done"
    /\ Len(last.stores) <= MaxCommits
    /\ \E srcName \in FileNames \cup {EmptyStr}, destName \in FileNames, fault \in BOOLEAN :
            RenameFile(<<"A">>, srcName, <<"A">>, destName, fault)

\* Another caller records a file error while the call is in progress.
IndexRaceSetFileError ==
    /\ last.pc # "done"
    /\ Len(last.stores) <= MaxCommits
    /\ \E fault \in BOOLEAN : SetFileError("f1", "broken", fault)

NextIndexRace ==
    \/ IndexedFiles
    \/ CommitLedger
    \/ IndexRaceRename
    \/ IndexRaceSetFileError

SpecIndexRace == InitIndexRace /\ [][NextIndexRace]_vars

\* ----------------------------------------------- batch.go: the request
PhotoUIDs == {"p1", "p2"}
AlbumUIDs == {"a1", "a2"}
LabelUIDs == {"l1", "l2"}

\* Rows come back from the store in primary-key order.
PhotoOrder == <<"p1", "p2">>
LabelOrder == <<"l1", "l2">>

SeqToSet(s) == {s[i] : i \in 1..Len(s)}

NoRepeatSeqs(S) ==
    {s \in UNION {[1..n -> S] : n \in 1..Cardinality(S)} :
        \A i, j \in 1..Len(s) : s[i] = s[j] => i = j}

\* form.Selection, and the request body BindJSON reads it from.
Selection(ph, al, lb) == [Photos |-> ph, Albums |-> al, Labels |-> lb]

EmptySelection == Selection(<<>>, <<>>, <<>>)

Body(f) == [ok |-> TRUE, f |-> f]

Malformed == [ok |-> FALSE, f |-> EmptySelection]

\* A call that returns before BindJSON has read no body.
Unread == Malformed

PhotoBodies == {Body(Selection(ph, <<>>, <<>>)) : ph \in NoRepeatSeqs(PhotoUIDs)}
AlbumBodies == {Body(Selection(<<>>, al, <<>>)) : al \in NoRepeatSeqs(AlbumUIDs)}
LabelBodies == {Body(Selection(<<>>, <<>>, lb)) : lb \in NoRepeatSeqs(LabelUIDs)}

\* The requests put to a handler that reads the identifiers of one kind: a
\* body that does not parse, an empty selection, a selection that names only
\* identifiers of another kind, and the selections of its own kind.
BodiesFor(kind) ==
    {Malformed, Body(EmptySelection)} \cup
    (IF kind = "Photos"
     THEN PhotoBodies \cup {Body(Selection(<<>>, <<"a1">>, <<>>))}
     ELSE IF kind = "Albums"
     THEN AlbumBodies \cup {Body(Selection(<<"p1">>, <<>>, <<>>))}
     ELSE LabelBodies \cup {Body(Selection(<<"p1">>, <<>>, <<>>))})

\* service.Config(), as far as a handler reads it.
Conf(backup, readOnly, delete) ==
    [backup |-> backup, readOnly |-> readOnly, delete |-> delete]

ConfUnread == Conf(FALSE, FALSE, TRUE)

\* The tables the handlers work on, at one instant.
BatchStore == [photos |-> photos, photoAlbums |-> photoAlbums, albums |-> albums,
               labels |-> labels]

\* One request.  pc is the position of its handler: "none" (not received),
\* a position before a statement, or "returned" (answered with status);
\* rows are the rows a loop has still to visit, done those it succeeded on,
\* failing those it failed on, fault the statements that met a store error;
\* trace is what the handler has issued, events what it has published; start
\* is the store as it was when the request was received, after the requests
\* that had been answered by then.
BatchCall(op, auth, conf, body, pc, rows, done, fault, failing, status, trace, events, start, after) ==
    [op |-> op, auth |-> auth, conf |-> conf, body |-> body, pc |-> pc, rows |-> rows,
     done |-> done, fault |-> fault, failing |-> failing, status |-> status,
     trace |-> trace, events |-> events, start |-> start, after |-> after]

NoBatchCall ==
    BatchCall("none", FALSE, ConfUnread, Unread, "none", <<>>, <<>>, {}, {}, "none",
              <<>>, <<>>, <<>>, {})

\* The requests of one behaviour.
BatchCalls(call) == [op |-> "batch", call |-> call]

\* event.Entities<Kind>(entity, ids)
Event(kind, entity, ids) == [kind |-> kind, entity |-> entity, ids |-> ids]

\* The prologue with the body read before the session is checked.
Precheck_BodyFirst(auth, body, kind) ==
    IF ~body.ok THEN "bad request"
    ELSE IF Len(body.f[kind]) = 0 THEN "bad request"
    ELSE IF ~auth THEN "unauthorized"
    ELSE "pass"

\* The prologue without the length test.
Precheck_NoLengthTest(auth, body, kind) ==
    IF ~auth THEN "unauthorized"
    ELSE IF ~body.ok THEN "bad request"
    ELSE "pass"

\* Auth, BindJSON and the length test every handler starts with: the
\* outcome that ends the call there, or "pass".
Precheck(auth, body, kind) ==
    IF ~auth THEN "unauthorized"
    ELSE IF ~body.ok THEN "bad request"
    ELSE IF Len(body.f[kind]) = 0 THEN "bad request"
    ELSE "pass"

\* The gate without the feature flag.
DeletionGated_ReadOnlyOnly(readOnly, featDelete) == readOnly

\* conf.ReadOnly() || !conf.Settings().Features.Delete
DeletionGated(readOnly, featDelete) == readOnly \/ ~featDelete

\* The same for BatchPhotosDelete, which consults the gate before it reads
\* the body.
PrecheckDelete(auth, conf, body) ==
    IF ~auth THEN "unauthorized"
    ELSE IF DeletionGated(conf.readOnly, conf.delete) THEN "feature disabled"
    ELSE Precheck(auth, body, "Photos")

\* Request i is received by the handler op: the checks made before any
\* store access.  A request that passes them stands before the statement
\* first.
Received(i, op, auth, conf, body, pre, first) ==
    /\ i \in DOMAIN last.call
    /\ last.call[i].pc = "none"
    /\ calls' = calls + 1
    /\ UNCHANGED <<users, passwords, defaults, files, duplicates, photos, albums, photoAlbums, labels>>
    /\ last' = [last EXCEPT !.call[i] =
                    BatchCall(op, auth, conf, body,
                              IF pre = "pass" THEN first ELSE "returned",
                              <<>>, <<>>, {}, {},
                              IF pre = "pass" THEN "none" ELSE pre,
                              <<>>, <<>>, BatchStore,
                              {j \in DOMAIN last.call : last.call[j].pc = "returned"})]

\* The request with record c stands at position pc of the handler op.
At(c, op, pc) == c.op = op /\ c.pc = pc

\* The handler goes on to position pc, having issued tokens.
Goes(c, pc, tokens) == [c EXCEPT !.pc = pc, !.trace = @ \o tokens]

\* The handler answers the request.
Returns(c, status, tokens, events) ==
    [c EXCEPT !.pc = "returned", !.status = status, !.trace = @ \o tokens,
              !.events = @ \o events]

\* A statement of the request met a store error.
Faulted(c, statement) == [c EXCEPT !.fault = @ \cup {statement}]

\* The record of request i after the step.
Becomes(i, c) == last' = [last EXCEPT !.call[i] = c]

\* ------------------------------------------------ batch.go: statements
\* query.PhotoSelection(f): the photo rows the selection names, archived
\* ones included, in store order.
PhotoSelection(ph, f) ==
    SelectSeq(PhotoOrder, LAMBDA u : u \in DOMAIN ph /\ u \in SeqToSet(f.Photos))

\* Db().Where("photo_uid IN (?)", f.Photos).Delete(&entity.Photo{})
SoftDeletePhotos(ph, uids) ==
    [u \in DOMAIN ph |->
        IF u \in SeqToSet(uids) /\ ~ph[u].deleted
        THEN [ph[u] EXCEPT !.deleted = TRUE]
        ELSE ph[u]]

\* Db().Model(&entity.PhotoAlbum{}).Where("photo_uid IN (?)", f.Photos).Update("hidden", true)
HideMemberships(pa, uids) ==
    {IF r.photo \in SeqToSet(uids) THEN [r EXCEPT !.hidden = TRUE] ELSE r : r \in pa}

\* The same update through the scoped handle, which matches no soft-deleted row.
RestorePhotos_Scoped(ph, uids) == ph

\* Db().Unscoped().Model(&entity.Photo{}).Where("photo_uid IN (?)", f.Photos).Update("deleted_at", NULL)
RestorePhotos(ph, uids) ==
    [u \in DOMAIN ph |->
        IF u \in SeqToSet(uids)
        THEN [ph[u] EXCEPT !.deleted = FALSE]
        ELSE ph[u]]

\* An update that sets the flag instead of inverting it.
TogglePrivate_SetsPrivate(ph, uids) ==
    [u \in DOMAIN ph |->
        IF u \in SeqToSet(uids) /\ ~ph[u].deleted
        THEN [ph[u] EXCEPT !.private = TRUE]
        ELSE ph[u]]

\* Db().Model(entity.Photo{}).Where("photo_uid IN (?)", f.Photos).Update("photo_private",
\*     "CASE WHEN photo_private > 0 THEN 0 ELSE 1 END")
TogglePrivate(ph, uids) ==
    [u \in DOMAIN ph |->
        IF u \in SeqToSet(uids) /\ ~ph[u].deleted
        THEN [ph[u] EXCEPT !.private = ~ph[u].private]
        ELSE ph[u]]

\* Db().Where("album_uid IN (?)", f.Albums).Delete(&entity.Album{})
DeleteAlbums(al, uids) == al \ SeqToSet(uids)

\* Db().Where("album_uid IN (?)", f.Albums).Delete(&entity.PhotoAlbum{})
DeleteAlbumMemberships(pa, uids) == {r \in pa : r.album \notin SeqToSet(uids)}

\* Db().Where("label_uid IN (?)", f.Labels).Find(&labels)
FindLabels(lb, uids) ==
    SelectSeq(LabelOrder, LAMBDA u : u \in lb /\ u \in SeqToSet(uids))

\* p.Archive(), p.Restore(), p.Approve(), photoprism.Delete(p) and
\* label.Delete() on the rows of `done`.
ArchiveEach(ph, done) ==
    [u \in DOMAIN ph |-> IF u \in done THEN [ph[u] EXCEPT !.deleted = TRUE] ELSE ph[u]]

HideEach(pa, done) ==
    {IF r.photo \in done THEN [r EXCEPT !.hidden = TRUE] ELSE r : r \in pa}

RestoreEach(ph, done) ==
    [u \in DOMAIN ph |-> IF u \in done THEN [ph[u] EXCEPT !.deleted = FALSE] ELSE ph[u]]

ApproveEach(ph, done) ==
    [u \in DOMAIN ph |-> IF u \in done THEN [ph[u] EXCEPT !.approved = TRUE] ELSE ph[u]]

RemoveEach(ph, done) == [u \in DOMAIN ph \ done |-> ph[u]]

RemoveMembershipsEach(pa, done) == {r \in pa : r.photo \notin done}

\* photos, err := query.PhotoSelection(f); if err != nil { AbortEntityNotFound }
\* in the handler op, which then loops over the rows and goes on to next.
PhotosSelected(i, c, op, fault, next) ==
    LET rows == PhotoSelection(photos, c.body.f) IN
    /\ At(c, op, "select")
    /\ UNCHANGED <<users, passwords, defaults, files, duplicates, photos, albums, photoAlbums, labels, calls>>
    /\ IF fault
       THEN Becomes(i, Faulted(Returns(c, "not found", <<"read">>, <<>>), "select"))
       ELSE Becomes(i, [Goes(c, IF rows = <<>> THEN next ELSE "rows", <<"read">>) EXCEPT !.rows = rows])

\* A loop that recomputes the counts after each row.
Looped_RecountEach(c, fails, each, onSuccess, next) ==
    LET p == Head(c.rows)
        l == Goes(c, IF Tail(c.rows) = <<>> THEN next ELSE "rows",
                  IF fails THEN each ELSE each \o onSuccess \o <<"recount">>)
    IN  IF fails
        THEN [l EXCEPT !.rows = Tail(@), !.failing = @ \cup {p}]
        ELSE [l EXCEPT !.rows = Tail(@), !.done = Append(@, p)]

\* A loop that ends at the first failure.
Looped_StopsAtFailure(c, fails, each, onSuccess, next) ==
    LET p == Head(c.rows)
        l == Goes(c, IF Tail(c.rows) = <<>> \/ fails THEN next ELSE "rows",
                  IF fails THEN each ELSE each \o onSuccess)
    IN  IF fails
        THEN [l EXCEPT !.rows = <<>>, !.failing = @ \cup {p}]
        ELSE [l EXCEPT !.rows = Tail(@), !.done = Append(@, p)]

\* A loop that collects the rows it failed on too.
Looped_CountsFailures(c, fails, each, onSuccess, next) ==
    LET p == Head(c.rows)
        l == Goes(c, IF Tail(c.rows) = <<>> THEN next ELSE "rows",
                  IF fails THEN each ELSE each \o onSuccess)
    IN  IF fails
        THEN [l EXCEPT !.rows = Tail(@), !.failing = @ \cup {p}, !.done = Append(@, p)]
        ELSE [l EXCEPT !.rows = Tail(@), !.done = Append(@, p)]

\* for _, p := range photos { if err := <each>(p); err != nil { log } else
\* { <onSuccess> } }: one pass of the loop, on the row at the head of rows.
Looped(c, fails, each, onSuccess, next) ==
    LET p == Head(c.rows)
        l == Goes(c, IF Tail(c.rows) = <<>> THEN next ELSE "rows",
                  IF fails THEN each ELSE each \o onSuccess)
    IN  IF fails
        THEN [l EXCEPT !.rows = Tail(@), !.failing = @ \cup {p}]
        ELSE [l EXCEPT !.rows = Tail(@), !.done = Append(@, p)]

\* logError("photos", entity.UpdatePhotoCounts())
Recounted(i, c, op, next) ==
    /\ At(c, op, "recount")
    /\ UNCHANGED <<users, passwords, defaults, files, duplicates, photos, albums, photoAlbums, labels, calls>>
    /\ Becomes(i, Goes(c, next, <<"recount">>))

\* UpdateClientConfig(); event.Entities<Kind>(...); c.JSON(http.StatusOK, ...)
Responded(i, c, op, events) ==
    /\ At(c, op, "respond")
    /\ UNCHANGED <<users, passwords, defaults, files, duplicates, photos, albums, photoAlbums, labels, calls>>
    /\ Becomes(i, Returns(c, "ok", <<"config", "notify">>, events))

\* ------------------------------------------------------- batch.go:20
ArchiveReceived(i, auth, conf, body) ==
    Received(i, "archive", auth, conf, body, Precheck(auth, body, "Photos"),
             IF conf.backup THEN "select" ELSE "delete")

\* batch.go:44-49
ArchiveSelect(i, c, fault) == PhotosSelected(i, c, "archive", fault, "recount")

\* batch.go:51-57, one row
ArchiveRow(i, c, fails) ==
    LET p == Head(c.rows) IN
    /\ At(c, "archive", "rows")
    /\ photos' = IF fails THEN photos ELSE ArchiveEach(photos, {p})
    /\ photoAlbums' = IF fails THEN photoAlbums ELSE HideEach(photoAlbums, {p})
    /\ Becomes(i, Looped(c, fails, <<"write">>, <<"yaml">>, "recount"))
    /\ UNCHANGED <<users, passwords, defaults, files, duplicates, albums, labels, calls>>

\* batch.go:58-61
ArchiveDelete(i, c, fault) ==
    /\ At(c, "archive", "delete")
    /\ photos' = IF fault THEN photos
                 ELSE SoftDeletePhotos(photos, c.body.f.Photos)
    /\ Becomes(i, IF fault
               THEN Faulted(Returns(c, "save failed", <<"write">>, <<>>), "delete")
               ELSE Goes(c, "hide", <<"write">>))
    /\ UNCHANGED <<users, passwords, defaults, files, duplicates, albums, photoAlbums, labels, calls>>

\* batch.go:62-64: a store error is logged only.
ArchiveHide(i, c, fault) ==
    /\ At(c, "archive", "hide")
    /\ photoAlbums' = IF fault THEN photoAlbums
                      ELSE HideMemberships(photoAlbums, c.body.f.Photos)
    /\ Becomes(i, IF fault
               THEN Faulted(Goes(c, "recount", <<"write">>), "hide")
               ELSE Goes(c, "recount", <<"write">>))
    /\ UNCHANGED <<users, passwords, defaults, files, duplicates, photos, albums, labels, calls>>

\* batch.go:66
ArchiveRecount(i, c) == Recounted(i, c, "archive", "respond")

\* batch.go:68-72
ArchiveRespond(i, c) ==
    Responded(i, c, "archive",
              <<Event("archived", "photos", c.body.f.Photos)>>)

\* The statements of BatchPhotosArchive, for the request i it serves.
BatchPhotosArchive(i, c) ==
    \/ \E fault \in BOOLEAN : ArchiveSelect(i, c, fault)
    \/ \E fails \in BOOLEAN : ArchiveRow(i, c, fails)
    \/ \E fault \in BOOLEAN : ArchiveDelete(i, c, fault)
    \/ \E fault \in BOOLEAN : ArchiveHide(i, c, fault)
    \/ ArchiveRecount(i, c)
    \/ ArchiveRespond(i, c)

\* ------------------------------------------------------- batch.go:77
RestoreReceived(i, auth, conf, body) ==
    Received(i, "restore", auth, conf, body, Precheck(auth, body, "Photos"),
             IF conf.backup THEN "select" ELSE "restore")

\* batch.go:101-106
RestoreSelect(i, c, fault) == PhotosSelected(i, c, "restore", fault, "recount")

\* batch.go:108-114, one row
RestoreRow(i, c, fails) ==
    LET p == Head(c.rows) IN
    /\ At(c, "restore", "rows")
    /\ photos' = IF fails THEN photos ELSE RestoreEach(photos, {p})
    /\ Becomes(i, Looped(c, fails, <<"write">>, <<"yaml">>, "recount"))
    /\ UNCHANGED <<users, passwords, defaults, files, duplicates, albums, photoAlbums, labels, calls>>

\* batch.go:115-120
RestoreUpdate(i, c, fault) ==
    /\ At(c, "restore", "restore")
    /\ photos' = IF fault THEN photos
                 ELSE RestorePhotos(photos, c.body.f.Photos)
    /\ Becomes(i, IF fault
               THEN Faulted(Returns(c, "save failed", <<"write">>, <<>>), "restore")
               ELSE Goes(c, "recount", <<"write">>))
    /\ UNCHANGED <<users, passwords, defaults, files, duplicates, albums, photoAlbums, labels, calls>>

\* batch.go:122
RestoreRecount(i, c) == Recounted(i, c, "restore", "respond")

\* batch.go:124-128
RestoreRespond(i, c) ==
    Responded(i, c, "restore",
              <<Event("restored", "photos", c.body.f.Photos)>>)

BatchPhotosRestore(i, c) ==
    \/ \E fault \in BOOLEAN : RestoreSelect(i, c, fault)
    \/ \E fails \in BOOLEAN : RestoreRow(i, c, fails)
    \/ \E fault \in BOOLEAN : RestoreUpdate(i, c, fault)
    \/ RestoreRecount(i, c)
    \/ RestoreRespond(i, c)

\* ------------------------------------------------------- batch.go:133
ApproveReceived(i, auth, conf, body) ==
    Received(i, "approve", auth, conf, body, Precheck(auth, body, "Photos"), "select")

\* batch.go:156-161
ApproveSelect(i, c, fault) == PhotosSelected(i, c, "approve", fault, "respond")

\* batch.go:165-172, one row
ApproveRow(i, c, fails) ==
    LET p == Head(c.rows) IN
    /\ At(c, "approve", "rows")
    /\ photos' = IF fails THEN photos ELSE ApproveEach(photos, {p})
    /\ Becomes(i, Looped(c, fails, <<"write">>, <<"yaml">>, "respond"))
    /\ UNCHANGED <<users, passwords, defaults, files, duplicates, albums, photoAlbums, labels, calls>>

\* batch.go:174-178
ApproveRespond(i, c) ==
    Responded(i, c, "approve", <<Event("updated", "photos", c.done)>>)

BatchPhotosApprove(i, c) ==
    \/ \E fault \in BOOLEAN : ApproveSelect(i, c, fault)
    \/ \E fails \in BOOLEAN : ApproveRow(i, c, fails)
    \/ ApproveRespond(i, c)

\* ------------------------------------------------------- batch.go:183
AlbumsReceived(i, auth, conf, body) ==
    Received(i, "albums", auth, conf, body, Precheck(auth, body, "Albums"), "albums")

\* batch.go:206: the result of the statement is not looked at.
AlbumsDelete(i, c, fault) ==
    /\ At(c, "albums", "albums")
    /\ albums' = IF fault THEN albums
                 ELSE DeleteAlbums(albums, c.body.f.Albums)
    /\ Becomes(i, IF fault
               THEN Faulted(Goes(c, "memberships", <<"write">>), "albums")
               ELSE Goes(c, "memberships", <<"write">>))
    /\ UNCHANGED <<users, passwords, defaults, files, duplicates, photos, photoAlbums, labels, calls>>

\* batch.go:207: the result of the statement is not looked at.
AlbumsDeleteMemberships(i, c, fault) ==
    /\ At(c, "albums", "memberships")
    /\ photoAlbums' = IF fault THEN photoAlbums
                      ELSE DeleteAlbumMemberships(photoAlbums, c.body.f.Albums)
    /\ Becomes(i, IF fault
               THEN Faulted(Goes(c, "respond", <<"write">>), "memberships")
               ELSE Goes(c, "respond", <<"write">>))
    /\ UNCHANGED <<users, passwords, defaults, files, duplicates, photos, albums, labels, calls>>

\* batch.go:209-213
AlbumsRespond(i, c) ==
    Responded(i, c, "albums", <<Event("deleted", "albums", c.body.f.Albums)>>)

BatchAlbumsDelete(i, c) ==
    \/ \E fault \in BOOLEAN : AlbumsDelete(i, c, fault)
    \/ \E fault \in BOOLEAN : AlbumsDeleteMemberships(i, c, fault)
    \/ AlbumsRespond(i, c)

\* ------------------------------------------------------- batch.go:218
PrivateReceived(i, auth, conf, body) ==
    Received(i, "private", auth, conf, body, Precheck(auth, body, "Photos"), "private")

\* batch.go:241-246
PrivateUpdate(i, c, fault) ==
    /\ At(c, "private", "private")
    /\ photos' = IF fault THEN photos
                 ELSE TogglePrivate(photos, c.body.f.Photos)
    /\ Becomes(i, IF fault
               THEN Faulted(Returns(c, "save failed", <<"write">>, <<>>), "private")
               ELSE Goes(c, "recount", <<"write">>))
    /\ UNCHANGED <<users, passwords, defaults, files, duplicates, albums, photoAlbums, labels, calls>>

\* batch.go:248
PrivateRecount(i, c) == Recounted(i, c, "private", "select")

\* batch.go:250-262: the rows read back are saved and published; when the
\* read fails no event is published, and the request is answered all the
\* same.
PrivateSelect(i, c, fault) ==
    LET rows == PhotoSelection(photos, c.body.f)
        yaml == [k \in 1..Len(rows) |-> "yaml"]
    IN
    /\ At(c, "private", "select")
    /\ UNCHANGED <<users, passwords, defaults, files, duplicates, photos, albums, photoAlbums, labels, calls>>
    /\ IF fault
       THEN Becomes(i, Faulted(Returns(c, "ok", <<"read", "config", "flush">>, <<>>),
                            "select"))
       ELSE Becomes(i, [Returns(c, "ok", <<"read">> \o yaml \o <<"notify", "config", "flush">>,
                             <<Event("updated", "photos", rows)>>) EXCEPT !.done = rows])

BatchPhotosPrivate(i, c) ==
    \/ \E fault \in BOOLEAN : PrivateUpdate(i, c, fault)
    \/ PrivateRecount(i, c)
    \/ \E fault \in BOOLEAN : PrivateSelect(i, c, fault)

\* ------------------------------------------------------- batch.go:267
LabelsReceived(i, auth, conf, body) ==
    Received(i, "labels", auth, conf, body, Precheck(auth, body, "Labels"), "find")

\* batch.go:293-296
LabelsFind(i, c, fault) ==
    LET rows == FindLabels(labels, c.body.f.Labels) IN
    /\ At(c, "labels", "find")
    /\ UNCHANGED <<users, passwords, defaults, files, duplicates, photos, albums, photoAlbums, labels, calls>>
    /\ IF fault
       THEN Becomes(i, Faulted(Returns(c, "delete failed", <<"read">>, <<>>), "find"))
       ELSE Becomes(i, [Goes(c, IF rows = <<>> THEN "respond" ELSE "rows", <<"read">>) EXCEPT !.rows = rows])

\* batch.go:298-300, one row: a failure is logged only.
LabelsRow(i, c, fails) ==
    LET l == Head(c.rows) IN
    /\ At(c, "labels", "rows")
    /\ labels' = IF fails THEN labels ELSE labels \ {l}
    /\ Becomes(i, Looped(c, fails, <<"write">>, <<>>, "respond"))
    /\ UNCHANGED <<users, passwords, defaults, files, duplicates, photos, albums, photoAlbums, calls>>

\* batch.go:302-306
LabelsRespond(i, c) ==
    Responded(i, c, "labels", <<Event("deleted", "labels", c.body.f.Labels)>>)

BatchLabelsDelete(i, c) ==
    \/ \E fault \in BOOLEAN : LabelsFind(i, c, fault)
    \/ \E fails \in BOOLEAN : LabelsRow(i, c, fails)
    \/ LabelsRespond(i, c)

\* ------------------------------------------------------- batch.go:311
DeleteReceived(i, auth, conf, body) ==
    Received(i, "delete", auth, conf, body, PrecheckDelete(auth, conf, body), "select")

\* batch.go:341-346
DeleteSelect(i, c, fault) == PhotosSelected(i, c, "delete", fault, "respond")

\* batch.go:351-357, one row
DeleteRow(i, c, fails) ==
    LET p == Head(c.rows) IN
    /\ At(c, "delete", "rows")
    /\ photos' = IF fails THEN photos ELSE RemoveEach(photos, {p})
    /\ photoAlbums' = IF fails THEN photoAlbums ELSE RemoveMembershipsEach(photoAlbums, {p})
    /\ Becomes(i, Looped(c, fails, <<"remove">>, <<>>,
                      IF ~fails \/ Len(c.done) > 0 THEN "recount" ELSE "respond"))
    /\ UNCHANGED <<users, passwords, defaults, files, duplicates, albums, labels, calls>>

\* batch.go:360-361
DeleteRecount(i, c) == Recounted(i, c, "delete", "respond")

\* batch.go:360-368: configuration and event only if a photo was deleted.
DeleteRespond(i, c) ==
    LET deleted == c.done IN
    /\ At(c, "delete", "respond")
    /\ UNCHANGED <<users, passwords, defaults, files, duplicates, photos, albums, photoAlbums, labels, calls>>
    /\ Becomes(i, IF Len(deleted) > 0
               THEN Returns(c, "ok", <<"config", "notify">>,
                            <<Event("deleted", "photos", deleted)>>)
               ELSE Returns(c, "ok", <<>>, <<>>))

BatchPhotosDelete(i, c) ==
    \/ \E fault \in BOOLEAN : DeleteSelect(i, c, fault)
    \/ \E fails \in BOOLEAN : DeleteRow(i, c, fails)
    \/ DeleteRecount(i, c)
    \/ DeleteRespond(i, c)

\* ------------------------------------------------ batch mutator: the store
PhotoRow(deleted, private, approved) ==
    [deleted |-> deleted, private |-> private, approved |-> approved]

Membership(photo, album, hidden) == [photo |-> photo, album |-> album, hidden |-> hidden]

\* The statements of the handler that serves request i.
Handler(i) ==
    \/ BatchPhotosArchive(i, last.call[i])
    \/ BatchPhotosRestore(i, last.call[i])
    \/ BatchPhotosApprove(i, last.call[i])
    \/ BatchAlbumsDelete(i, last.call[i])
    \/ BatchPhotosPrivate(i, last.call[i])
    \/ BatchLabelsDelete(i, last.call[i])
    \/ BatchPhotosDelete(i, last.call[i])

\* ---------------------------- batch mutator: requests served concurrently
\* Two requests, each received at any moment: one after the other or while
\* the handler of the other stands between two of its statements.  The
\* requests are authorized and well-formed and select p1, both photos, a1 or
\* l1.  p1 is in albums a1 and a2, p2 (when it exists) in a1; the
\* memberships of an archived photo are hidden.  Label l2 does not exist.
Requests == {1, 2}

Init ==
    /\ files = <<>>
    /\ duplicates = {}
    /\ users = <<>>
    /\ passwords = <<>>
    /\ defaults = <<>>
    /\ \E d1 \in BOOLEAN, v1 \in BOOLEAN, e2 \in BOOLEAN :
        /\ photos = [u \in (IF e2 THEN PhotoUIDs ELSE {"p1"}) |->
                        IF u = "p1" THEN PhotoRow(d1, v1, FALSE)
                        ELSE PhotoRow(FALSE, FALSE, FALSE)]
        /\ photoAlbums = {Membership("p1", "a1", d1), Membership("p1", "a2", d1)}
                            \cup (IF e2 THEN {Membership("p2", "a1", FALSE)} ELSE {})
    /\ albums = AlbumUIDs
    /\ labels = {"l1"}
    /\ calls = 0
    /\ last = BatchCalls([i \in Requests |-> NoBatchCall])

ServedPhotoBodies ==
    {Body(Selection(ph, <<>>, <<>>)) : ph \in {<<"p1">>, <<"p1", "p2">>, <<"p2", "p1">>}}

CallArchive ==
    \E backup \in BOOLEAN, body \in ServedPhotoBodies :
        ArchiveReceived(calls + 1, TRUE, Conf(backup, FALSE, TRUE), body)

CallRestore ==
    \E backup \in BOOLEAN, body \in ServedPhotoBodies :
        RestoreReceived(calls + 1, TRUE, Conf(backup, FALSE, TRUE), body)

CallApprove ==
    \E body \in ServedPhotoBodies :
        ApproveReceived(calls + 1, TRUE, ConfUnread, body)

CallAlbumsDelete ==
    AlbumsReceived(calls + 1, TRUE, ConfUnread, Body(Selection(<<>>, <<"a1">>, <<>>)))

CallPrivate ==
    \E body \in ServedPhotoBodies :
        PrivateReceived(calls + 1, TRUE, ConfUnread, body)

CallLabelsDelete ==
    LabelsReceived(calls + 1, TRUE, ConfUnread, Body(Selection(<<>>, <<>>, <<"l1">>)))

CallDelete ==
    \E body \in ServedPhotoBodies :
        DeleteReceived(calls + 1, TRUE, ConfUnread, body)

Next ==
    \/ CallArchive
    \/ CallRestore
    \/ CallApprove
    \/ CallAlbumsDelete
    \/ CallPrivate
    \/ CallLabelsDelete
    \/ CallDelete
    \/ \E i \in Requests : Handler(i)

Spec == Init /\ [][Next]_vars

\* ------------------------------------ batch mutator: one call, any request
\* One request served on a store: every session, configuration, body, store
\* error and per-item failure a handler can meet.
Configs == {Conf(backup, readOnly, delete) :
                backup \in BOOLEAN, readOnly \in BOOLEAN, delete \in BOOLEAN}

InitCall ==
    /\ files = <<>>
    /\ duplicates = {}
    /\ users = <<>>
    /\ passwords = <<>>
    /\ defaults = <<>>
    /\ \E d1 \in BOOLEAN, v1 \in BOOLEAN, v2 \in BOOLEAN, e2 \in BOOLEAN :
        /\ (~e2 => ~v2)
        /\ photos = [u \in (IF e2 THEN PhotoUIDs ELSE {"p1"}) |->
                        IF u = "p1" THEN PhotoRow(d1, v1, FALSE)
                        ELSE PhotoRow(FALSE, v2, FALSE)]
        /\ \E al \in {AlbumUIDs, {"a2"}} :
            /\ albums = al
            /\ photoAlbums =
                {r \in {Membership("p1", "a1", d1), Membership("p1", "a2", d1)}
                        \cup (IF e2 THEN {Membership("p2", "a1", FALSE)} ELSE {}) :
                    r.album \in al}
    /\ labels = {"l1"}
    /\ calls = 0
    /\ last = BatchCalls([i \in {1} |-> NoBatchCall])

RequestArchive ==
    \E auth \in BOOLEAN, conf \in Configs, body \in BodiesFor("Photos") :
        ArchiveReceived(1, auth, conf, body)

RequestRestore ==
    \E auth \in BOOLEAN, conf \in Configs, body \in BodiesFor("Photos") :
        RestoreReceived(1, auth, conf, body)

RequestApprove ==
    \E auth \in BOOLEAN, conf \in Configs, body \in BodiesFor("Photos") :
        ApproveReceived(1, auth, conf, body)

RequestAlbumsDelete ==
    \E auth \in BOOLEAN, conf \in Configs, body \in BodiesFor("Albums") :
        AlbumsReceived(1, auth, conf, body)

RequestPrivate ==
    \E auth \in BOOLEAN, conf \in Configs, body \in BodiesFor("Photos") :
        PrivateReceived(1, auth, conf, body)

RequestLabelsDelete ==
    \E auth \in BOOLEAN, conf \in Configs, body \in BodiesFor("Labels") :
        LabelsReceived(1, auth, conf, body)

RequestDelete ==
    \E auth \in BOOLEAN, conf \in Configs, body \in BodiesFor("Photos") :
        DeleteReceived(1, auth, conf, body)

NextCall ==
    \/ RequestArchive
    \/ RequestRestore
    \/ RequestApprove
    \/ RequestAlbumsDelete
    \/ RequestPrivate
    \/ RequestLabelsDelete
    \/ RequestDelete
    \/ Handler(1)

SpecCall == InitCall /\ [][NextCall]_vars

\* ----------------------------------- batch mutator: archive, then restore
\* Archive and restore requests put to a store in which no photo is
\* archived and no album membership is hidden.
InitRoundTrip ==
    /\ files = <<>>
    /\ duplicates = {}
    /\ users = <<>>
    /\ passwords = <<>>
    /\ defaults = <<>>
    /\ \E v1 \in BOOLEAN, v2 \in BOOLEAN, e2 \in BOOLEAN :
        /\ (~e2 => ~v2)
        /\ photos = [u \in (IF e2 THEN PhotoUIDs ELSE {"p1"}) |->
                        IF u = "p1" THEN PhotoRow(FALSE, v1, FALSE)
                        ELSE PhotoRow(FALSE, v2, FALSE)]
        /\ \E al \in {AlbumUIDs, {"a2"}} :
            /\ albums = al
            /\ photoAlbums =
                {r \in {Membership("p1", "a1", FALSE), Membership("p1", "a2", FALSE)}
                        \cup (IF e2 THEN {Membership("p2", "a1", FALSE)} ELSE {}) :
                    r.album \in al}
    /\ labels = {"l1"}
    /\ calls = 0
    /\ last = BatchCalls([i \in Requests |-> NoBatchCall])

RoundTripArchive ==
    \E backup \in BOOLEAN, body \in PhotoBodies :
        ArchiveReceived(calls + 1, TRUE, Conf(backup, FALSE, TRUE), body)

RoundTripRestore ==
    \E backup \in BOOLEAN, body \in PhotoBodies :
        RestoreReceived(calls + 1, TRUE, Conf(backup, FALSE, TRUE), body)

NextRoundTrip ==
    \/ RoundTripArchive
    \/ RoundTripRestore
    \/ \E i \in Requests : BatchPhotosArchive(i, last.call[i])
    \/ \E i \in Requests : BatchPhotosRestore(i, last.call[i])

SpecRoundTrip == InitRoundTrip /\ [][NextRoundTrip]_vars

\* --------------------------------------------------------- user.go: users
\* time.Second * 5 * time.Duration(m.LoginAttempts)
SleepSeconds == 5

\* User.UserUID values: u1 and u2 stand for generated UIDs, uuid for a UUID.
UserUID == "u1"

\* The UIDs users are looked up by.
UserUIDs == {UserUID, "u2", "uuid"}

\* rnd.IsPPID(uid, 'u'): "u" followed by 15 lower-case letters or digits.
IsPPID(uid) == uid \in {UserUID, "u2", "u000000000000001", "u000000000000002"}

\* rnd.IsUID(uid, 'u'): the form of a generated UID, or that of a UUID.
IsUID(uid) == IsPPID(uid) \/ uid = "uuid"

\* rnd.PPID('u'): a random string of the form IsPPID accepts.
GeneratedUIDs == {"u2"}

UserNames == {"admin", "bob", ""}

Passwords == {"", "pw", "right", "wrong"}

\* A row of the users table.
UserRow(userUID, userName, loginAttempts, deleted) ==
    [userUID |-> userUID, userName |-> userName, loginAttempts |-> loginAttempts,
     deleted |-> deleted]

\* A User value: the fields the functions read and write.
NewUser(id, userUID, userName, loginAttempts) ==
    [id |-> id, userUID |-> userUID, userName |-> userName,
     loginAttempts |-> loginAttempts]

\* The User value a query scans a row into.
UserValue(id, row) == NewUser(id, row.userUID, row.userName, row.loginAttempts)

\* The nil *User.
NilUser == NewUser(0, "", "", -1)

\* var Admin, UnknownUser, Guest as the program starts.
DefaultUsers ==
    [Admin |-> NewUser(1, "", "admin", 0),
     UnknownUser |-> NewUser(-1, "u000000000000001", "", 0),
     Guest |-> NewUser(-2, "u000000000000002", "", 0)]

\* The order in which CreateDefaultUsers goes through them.
DefaultOrder == <<"Admin", "UnknownUser", "Guest">>

\* Rows the scoped handle Db() sees.
ScopedUsers(us) == {id \in DOMAIN us : ~us[id].deleted}

\* First(&result): the row with the lowest primary key among those matched.
FirstOf(ids) == CHOOSE id \in ids : \A other \in ids : id <= other

\* The primary key the store gives to a row inserted without one.
NextID(us) ==
    IF \E id \in DOMAIN us : id > 0
    THEN (CHOOSE id \in DOMAIN us : \A other \in DOMAIN us : other <= id) + 1
    ELSE 1

\* m.BeforeCreate(scope)
BeforeCreate(m, generated) ==
    IF IsUID(m.userUID) THEN m ELSE [m EXCEPT !.userUID = generated]

\* Db().Create(m): BeforeCreate, then the INSERT, which the primary key and
\* the unique index on user_uid can reject.  The result is the table, the
\* value m as the call leaves it, and whether an error is returned.
Inserted(us, m, generated, fault) ==
    LET b == BeforeCreate(m, generated)
        id == IF b.id = 0 THEN NextID(us) ELSE b.id
        rejected == \/ fault
                    \/ id \in DOMAIN us
                    \/ \E other \in DOMAIN us : us[other].userUID = b.userUID
    IN
    IF rejected
    THEN [users |-> us, m |-> b, err |-> TRUE]
    ELSE [users |-> [r \in DOMAIN us \cup {id} |->
                        IF r = id
                        THEN UserRow(b.userUID, b.userName, b.loginAttempts, FALSE)
                        ELSE us[r]],
          m |-> [b EXCEPT !.id = id], err |-> FALSE]

\* The UPDATE of Db().Save(m), for a value with a primary key: every column
\* of the row whose id is m.ID is set from m.  hit is the number of rows the
\* statement matched.
Updated(us, m, fault) ==
    LET hit == {m.id} \cap ScopedUsers(us)
        rejected == \/ fault
                    \/ /\ hit # {}
                       /\ \E other \in DOMAIN us \ hit : us[other].userUID = m.userUID
    IN
    IF rejected
    THEN [users |-> us, hit |-> 0, err |-> TRUE]
    ELSE [users |-> [r \in DOMAIN us |->
                        IF r \in hit
                        THEN UserRow(m.userUID, m.userName, m.loginAttempts, FALSE)
                        ELSE us[r]],
          hit |-> Cardinality(hit), err |-> FALSE]

\* Rows matched by Db().Model(m): the row whose id is m.ID, every row when
\* m has no primary key.
ModelRows(us, m) ==
    IF m.id = 0 THEN ScopedUsers(us) ELSE {m.id} \cap ScopedUsers(us)

\* Rows matched by "id = ? OR user_uid = ?".
Matching(us, m) ==
    {id \in ScopedUsers(us) : id = m.id \/ us[id].userUID = m.userUID}

\* m.Registered()
Registered(m) == m.userName # "" /\ IsPPID(m.userUID)

\* Db().Model(m).Update("login_attempts", gorm.Expr("login_attempts + ?", 1))
IncrementAttempts(us, m) ==
    [r \in DOMAIN us |->
        IF r \in ModelRows(us, m) THEN [us[r] EXCEPT !.loginAttempts = @ + 1] ELSE us[r]]

\* Db().Model(m).Updates({"login_attempts": 0, "login_at": Timestamp()})
ResetAttempts(us, m) ==
    [r \in DOMAIN us |->
        IF r \in ModelRows(us, m) THEN [us[r] EXCEPT !.loginAttempts = 0] ELSE us[r]]

\* FindPassword(uid): nil ("") when the lookup fails or finds no row.
FindPassword(pws, uid, fault) ==
    IF fault \/ uid \notin DOMAIN pws THEN "" ELSE pws[uid]

\* NewPassword(uid, password).Save(): the password stored for uid.
SavePassword(pws, uid, password, fault) ==
    IF fault THEN pws
    ELSE [u \in DOMAIN pws \cup {uid} |-> IF u = uid THEN password ELSE pws[u]]

\* One caller: the User value m it holds and the call it runs or ran last.
\* pc is the position of the call: "idle" (none in progress: result, err and
\* delay are those of the call that returned last) or the statement the call
\* in progress issues next.  result is the value InvalidPassword returned,
\* err whether the call returned an error (or nil for a *User).  fresh: m
\* was read from the store, and since then it was not used and no statement
\* changed the users table.
LoginCaller(op, m, arg, pc, result, delay, fresh, invalid, fault, err) ==
    [op |-> op, m |-> m, arg |-> arg, pc |-> pc, result |-> result,
     delay |-> delay, fresh |-> fresh, invalid |-> invalid, fault |-> fault,
     err |-> err]

\* The callers, with the history the claims speak of, kept for the row of
\* the admin: streak (the checks that returned true since the last one that
\* returned false, among those made with a non-empty password on registered
\* values that carry its primary key, while a password was stored for the
\* value's UID), clean (no statement but the updates of those checks has
\* changed the row) and serial (no check began while another was in
\* progress).
LoginCalls(call, streak, clean, serial) ==
    [op |-> "login", call |-> call, streak |-> streak, clean |-> clean,
     serial |-> serial]

\* Caller i in a call of op at position pc.
In(i, op, pc) == last.call[i].op = op /\ last.call[i].pc = pc

\* Caller i free to begin a call.
Idle(i) == last.call[i].pc = "idle"

\* Caller i begins a call.
Begins(i) == Idle(i) /\ calls < MaxChecks /\ calls' = calls + 1

\* The record of a call that has returned, leaving m.
Returned(op, m, err) ==
    LoginCaller(op, m, "", "idle", FALSE, 0, FALSE, FALSE, FALSE, err)

\* The record of a call that goes on to the statement at pc.
Proceeds(op, m, arg, pc) ==
    LoginCaller(op, m, arg, pc, FALSE, 0, FALSE, FALSE, FALSE, FALSE)

\* The callers after a step of caller i that leaves the users table as us:
\* a statement that changes the table ends the freshness of the values held.
Held(i, c, us) ==
    [j \in DOMAIN last.call |->
        IF j = i THEN c
        ELSE IF us # users THEN [last.call[j] EXCEPT !.fresh = FALSE]
        ELSE last.call[j]]

\* The row of the admin is left as it was.
Kept(us) ==
    \A id \in DOMAIN us \cap DOMAIN users \cap {DefaultUsers.Admin.id} :
        us[id] = users[id]

\* A step of caller i that is no update of the counter by InvalidPassword.
Step(i, c, us) ==
    /\ users' = us
    /\ last' = [last EXCEPT !.call = Held(i, c, us), !.clean = @ /\ Kept(us)]

\* FindUserByUID(uid): nil for an empty uid, a store error, or no row the
\* scoped handle sees.
FindUserByUID(i, uid, fault) ==
    LET found == {id \in ScopedUsers(users) : users[id].userUID = uid} IN
    /\ Begins(i)
    /\ Step(i, IF uid = "" \/ fault \/ found = {}
               THEN Returned("FindUserByUID", NilUser, TRUE)
               ELSE [Returned("FindUserByUID",
                              UserValue(FirstOf(found), users[FirstOf(found)]), FALSE)
                        EXCEPT !.fresh = TRUE],
            users)
    /\ UNCHANGED <<files, duplicates, photos, albums, photoAlbums, labels, passwords,
                   defaults>>

\* FindUserByName(userName)
FindUserByName(i, userName, fault) ==
    LET found == {id \in ScopedUsers(users) : users[id].userName = userName} IN
    /\ Begins(i)
    /\ Step(i, IF userName = "" \/ fault \/ found = {}
               THEN Returned("FindUserByName", NilUser, TRUE)
               ELSE [Returned("FindUserByName",
                              UserValue(FirstOf(found), users[FirstOf(found)]), FALSE)
                        EXCEPT !.fresh = TRUE],
            users)
    /\ UNCHANGED <<files, duplicates, photos, albums, photoAlbums, labels, passwords,
                   defaults>>

\* m.Create()
Create(i, m, generated, fault) ==
    LET r == Inserted(users, m, generated, fault) IN
    /\ Begins(i)
    /\ Step(i, Returned("Create", r.m, r.err), r.users)
    /\ UNCHANGED <<files, duplicates, photos, albums, photoAlbums, labels, passwords,
                   defaults>>

\* m.Save(), user.go:135-137, Db().Save(m): the INSERT for a value without
\* primary key, else the UPDATE.  An UPDATE that matches no row is followed
\* by FirstOrCreate(m).
SaveUpdate(i, m, generated, fault) ==
    LET r == Inserted(users, m, generated, fault)
        u == Updated(users, m, fault)
    IN
    /\ Begins(i)
    /\ UNCHANGED <<files, duplicates, photos, albums, photoAlbums, labels, passwords,
                   defaults>>
    /\ IF m.id = 0
       THEN Step(i, Returned("Save", r.m, r.err), r.users)
       ELSE IF u.err \/ u.hit > 0
       THEN Step(i, Returned("Save", m, u.err), u.users)
       ELSE Step(i, Proceeds("Save", m, "", "first"), users)

\* Db().Save(m): the SELECT of FirstOrCreate(m), by primary key.
SaveFirst(i, fault) ==
    LET m == last.call[i].m
        found == {m.id} \cap ScopedUsers(users)
    IN
    /\ In(i, "Save", "first")
    /\ UNCHANGED <<files, duplicates, photos, albums, photoAlbums, labels, passwords,
                   defaults, calls>>
    /\ IF fault
       THEN Step(i, Returned("Save", m, TRUE), users)
       ELSE IF found # {}
       THEN Step(i, Returned("Save", UserValue(m.id, users[m.id]), FALSE),
                 users)
       ELSE Step(i, Proceeds("Save", m, "", "create"), users)

\* Db().Save(m): the INSERT of FirstOrCreate(m).
SaveCreate(i, generated, fault) ==
    LET r == Inserted(users, last.call[i].m, generated, fault) IN
    /\ In(i, "Save", "create")
    /\ Step(i, Returned("Save", r.m, r.err), r.users)
    /\ UNCHANGED <<files, duplicates, photos, albums, photoAlbums, labels, passwords,
                   defaults, calls>>

\* FirstOrCreateUser(m), user.go:150-153: the SELECT.  Any error of the
\* lookup leads to m.Create().
FirstOrCreateUserFirst(i, m, fault) ==
    LET found == Matching(users, m) IN
    /\ Begins(i)
    /\ UNCHANGED <<files, duplicates, photos, albums, photoAlbums, labels, passwords,
                   defaults>>
    /\ IF fault \/ found = {}
       THEN Step(i, Proceeds("FirstOrCreateUser", m, "", "create"), users)
       ELSE Step(i, [Returned("FirstOrCreateUser",
                              UserValue(FirstOf(found), users[FirstOf(found)]), FALSE)
                        EXCEPT !.fresh = TRUE],
                 users)

\* FirstOrCreateUser(m), user.go:154-159: m.Create(); nil when it fails.
FirstOrCreateUserCreate(i, generated, fault) ==
    LET r == Inserted(users, last.call[i].m, generated, fault) IN
    /\ In(i, "FirstOrCreateUser", "create")
    /\ Step(i, Returned("FirstOrCreateUser", IF r.err THEN NilUser ELSE r.m, r.err),
            r.users)
    /\ UNCHANGED <<files, duplicates, photos, albums, photoAlbums, labels, passwords,
                   defaults, calls>>

\* The record of CreateDefaultUsers when it is done with the k-th of the
\* default users.
DefaultDone(m, k) ==
    IF k < Len(DefaultOrder)
    THEN Proceeds("CreateDefaultUsers", m, DefaultOrder[k + 1], "first")
    ELSE Returned("CreateDefaultUsers", m, FALSE)

\* CreateDefaultUsers(): the SELECT of FirstOrCreateUser on the k-th of
\* Admin, UnknownUser and Guest, and the assignment of the row found.
DefaultFirst(i, k, fault) ==
    LET name == DefaultOrder[k]
        found == Matching(users, defaults[name])
    IN
    /\ UNCHANGED <<files, duplicates, photos, albums, photoAlbums, labels, passwords>>
    /\ IF fault \/ found = {}
       THEN /\ Step(i, Proceeds("CreateDefaultUsers", last.call[i].m, name, "create"),
                    users)
            /\ UNCHANGED defaults
       ELSE /\ Step(i, DefaultDone(last.call[i].m, k), users)
            /\ defaults' = [defaults EXCEPT
                                ![name] = UserValue(FirstOf(found), users[FirstOf(found)])]

\* CreateDefaultUsers(): the m.Create() of FirstOrCreateUser, on the package
\* variable itself.
DefaultCreate(i, k, generated, fault) ==
    LET name == DefaultOrder[k]
        r == Inserted(users, defaults[name], generated, fault)
    IN
    /\ In(i, "CreateDefaultUsers", "create")
    /\ last.call[i].arg = name
    /\ Step(i, DefaultDone(last.call[i].m, k), r.users)
    /\ defaults' = [defaults EXCEPT ![name] = r.m]
    /\ UNCHANGED <<files, duplicates, photos, albums, photoAlbums, labels, passwords,
                   calls>>

\* CreateDefaultUsers(), as run by caller i.  The package variables are read
\* and assigned without a lock.
CreateDefaultUsers(i) ==
    \/ \E fault \in BOOLEAN : Begins(i) /\ DefaultFirst(i, 1, fault)
    \/ \E k \in DOMAIN DefaultOrder, fault \in BOOLEAN :
        /\ In(i, "CreateDefaultUsers", "first")
        /\ last.call[i].arg = DefaultOrder[k]
        /\ calls < MaxChecks
        /\ calls' = calls + 1
        /\ DefaultFirst(i, k, fault)
    \/ \E k \in DOMAIN DefaultOrder, generated \in GeneratedUIDs, fault \in BOOLEAN :
        DefaultCreate(i, k, generated, fault)

\* m.SetPassword(password)
SetPassword(i, password, fault) ==
    LET m == last.call[i].m
        refused == ~Registered(m) \/ Len(password) < 4
    IN
    /\ m # NilUser
    /\ Begins(i)
    /\ Step(i, Returned("SetPassword", m, refused \/ fault),
            users)
    /\ passwords' = IF refused THEN passwords
                    ELSE SavePassword(passwords, m.userUID, password, fault)
    /\ UNCHANGED <<files, duplicates, photos, albums, photoAlbums, labels, defaults>>

\* m.InitPassword(password), user.go:243-257: the checks and FindPassword.
InitPasswordFind(i, password, fault) ==
    LET m == last.call[i].m IN
    /\ m # NilUser
    /\ Begins(i)
    /\ UNCHANGED <<files, duplicates, photos, albums, photoAlbums, labels, passwords,
                   defaults>>
    /\ IF ~Registered(m) \/ password = ""
       THEN Step(i, Returned("InitPassword", m, FALSE), users)
       ELSE IF FindPassword(passwords, m.userUID, fault) # ""
       THEN Step(i, Returned("InitPassword", m, FALSE), users)
       ELSE Step(i, Proceeds("InitPassword", m, password, "save"),
                 users)

\* m.InitPassword(password), user.go:259-263: pw.Save(), its error logged.
InitPasswordSave(i, fault) ==
    LET c == last.call[i] IN
    /\ In(i, "InitPassword", "save")
    /\ Step(i, Returned("InitPassword", c.m, FALSE), users)
    /\ passwords' = SavePassword(passwords, c.m.userUID, c.arg, fault)
    /\ UNCHANGED <<files, duplicates, photos, albums, photoAlbums, labels, defaults,
                   calls>>

\* m.InvalidPassword(password), user.go:267-277: the checks made before any
\* store access, and the delay.
InvalidPasswordSleep(i, password) ==
    LET m == last.call[i].m IN
    /\ m # NilUser
    /\ Begins(i)
    /\ UNCHANGED <<files, duplicates, photos, albums, photoAlbums, labels, users,
                   passwords, defaults>>
    /\ IF ~Registered(m) \/ password = ""
       THEN last' = [last EXCEPT !.call[i] =
                        LoginCaller("InvalidPassword", m, "", "idle", TRUE, 0,
                                    FALSE, FALSE, FALSE, FALSE)]
       ELSE last' = [last EXCEPT !.call[i] =
                        LoginCaller("InvalidPassword", m, password, "slept", FALSE,
                                    SleepSeconds * m.loginAttempts, FALSE, FALSE, FALSE,
                                    FALSE),
                                 !.serial = @ /\ \A j \in DOMAIN last.call \ {i} :
                                                    last.call[j].op = "InvalidPassword"
                                                        => Idle(j)]

\* user.go:279-285: FindPassword(m.UserUID) and the comparison.
InvalidPasswordFind(i, fault) ==
    LET c == last.call[i]
        stored == FindPassword(passwords, c.m.userUID, fault)
    IN
    /\ In(i, "InvalidPassword", "slept")
    /\ UNCHANGED <<files, duplicates, photos, albums, photoAlbums, labels, users,
                   passwords, defaults, calls>>
    /\ IF stored = ""
       THEN last' = [last EXCEPT !.call[i].pc = "idle", !.call[i].result = TRUE,
                                 !.call[i].arg = "",
                                 !.streak = IF /\ c.m.id = DefaultUsers.Admin.id
                                               /\ c.m.userUID \in DOMAIN passwords
                                            THEN @ + 1 ELSE @]
       ELSE last' = [last EXCEPT !.call[i].pc = "found",
                                 !.call[i].invalid = (stored # c.arg)]

\* user.go:286-297.  An update that meets a store error changes no row; the
\* Updates call may have assigned the new value to m before the statement
\* failed (assigned).
InvalidPasswordUpdate(i, fault, assigned) ==
    LET c == last.call[i]
        us == IF fault THEN users
              ELSE IF c.invalid THEN IncrementAttempts(users, c.m)
              ELSE ResetAttempts(users, c.m)
        onAdmin == c.m.id = DefaultUsers.Admin.id
    IN
    /\ In(i, "InvalidPassword", "found")
    /\ assigned \/ (fault /\ ~c.invalid)
    /\ users' = us
    /\ last' = [last EXCEPT
                    !.call = Held(i, [c EXCEPT !.pc = "idle", !.arg = "", !.result = c.invalid,
                                               !.fault = fault,
                                               !.m.loginAttempts =
                                                    IF ~c.invalid /\ assigned THEN 0 ELSE @],
                                  us),
                    !.streak = IF ~onAdmin THEN @ ELSE IF c.invalid THEN @ + 1 ELSE 0,
                    !.clean = IF onAdmin THEN @ ELSE @ /\ Kept(us)]
    /\ UNCHANGED <<files, duplicates, photos, albums, photoAlbums, labels, passwords,
                   defaults, calls>>

\* m.InvalidPassword(password), as run by caller i.
InvalidPassword(i) ==
    \/ \E password \in Passwords : InvalidPasswordSleep(i, password)
    \/ \E fault \in BOOLEAN : InvalidPasswordFind(i, fault)
    \/ \E fault \in BOOLEAN, assigned \in BOOLEAN : InvalidPasswordUpdate(i, fault, assigned)

\* The User values the callers make up: a new user with a generated UID,
\* with a UUID, or without UID.
NewUsers ==
    {NewUser(0, "u2", "bob", 0), NewUser(0, "", "bob", 0)}

\* The values a caller saves: the one it holds, or one it makes up with the
\* primary key and the UID of the admin and no user name.
Saved(m) == {m, NewUser(DefaultUsers.Admin.id, UserUID, "", 0)} \ {NilUser}

\* m.Save(), as run by caller i.
Save(i) ==
    \/ \E m \in Saved(last.call[i].m), generated \in GeneratedUIDs, fault \in BOOLEAN :
            SaveUpdate(i, m, generated, fault)
    \/ \E fault \in BOOLEAN : SaveFirst(i, fault)
    \/ \E generated \in GeneratedUIDs, fault \in BOOLEAN : SaveCreate(i, generated, fault)

\* FirstOrCreateUser(m), as run by caller i.
FirstOrCreateUser(i) ==
    \/ \E m \in NewUsers, fault \in BOOLEAN : FirstOrCreateUserFirst(i, m, fault)
    \/ \E generated \in GeneratedUIDs, fault \in BOOLEAN :
            FirstOrCreateUserCreate(i, generated, fault)

\* m.InitPassword(password), as run by caller i.
InitPassword(i) ==
    \/ \E password \in Passwords, fault \in BOOLEAN : InitPasswordFind(i, password, fault)
    \/ \E fault \in BOOLEAN : InitPasswordSave(i, fault)

LoginCallers == {1, 2}

\* The users table is empty, or holds the admin, with or without stored
\* password, and a user whose UID is a UUID; the row of the admin
\* may be soft-deleted.  The package variables are as declared.  The callers
\* hold no user value, or the one they have just read from the row of the
\* admin.
InitLogin ==
    /\ files = <<>>
    /\ duplicates = {}
    /\ photos = <<>>
    /\ albums = {}
    /\ photoAlbums = {}
    /\ labels = {}
    /\ calls = 0
    /\ defaults = DefaultUsers
    /\ \/ users = <<>> /\ passwords = <<>>
       \/ \E stored \in {"right", ""}, d1 \in BOOLEAN :
            /\ users = [id \in {1, 2} |->
                            IF id = 1 THEN UserRow(UserUID, "admin", 0, d1)
                            ELSE UserRow("uuid", "bob", 0, FALSE)]
            /\ passwords = IF stored = "" THEN <<>> ELSE [uid \in {UserUID} |-> stored]
    /\ \E read \in {id \in {DefaultUsers.Admin.id} \cap DOMAIN users : ~users[id].deleted}
                    \cup {0} :
        last = LoginCalls([i \in LoginCallers |->
                            IF read = 0
                            THEN LoginCaller("none", NilUser, "", "idle", FALSE, 0, FALSE,
                                             FALSE, FALSE, FALSE)
                            ELSE LoginCaller("none", UserValue(read, users[read]), "",
                                             "idle", FALSE, 0, TRUE, FALSE, FALSE, FALSE)],
                          0, TRUE, TRUE)

NextLogin ==
    \/ \E i \in LoginCallers, uid \in UserUIDs \cup {""}, fault \in BOOLEAN :
            FindUserByUID(i, uid, fault)
    \/ \E i \in LoginCallers, userName \in UserNames, fault \in BOOLEAN :
            FindUserByName(i, userName, fault)
    \/ \E i \in LoginCallers, m \in NewUsers, generated \in GeneratedUIDs, fault \in BOOLEAN :
            Create(i, m, generated, fault)
    \/ \E i \in LoginCallers : Save(i)
    \/ \E i \in LoginCallers : FirstOrCreateUser(i)
    \/ \E i \in LoginCallers : CreateDefaultUsers(i)
    \/ \E i \in LoginCallers, password \in Passwords, fault \in BOOLEAN :
            SetPassword(i, password, fault)
    \/ \E i \in LoginCallers : InitPassword(i)
    \/ \E i \in LoginCallers : InvalidPassword(i)

SpecLogin == InitLogin /\ [][NextLogin]_vars
\* ------------------------------------------------ claims on the resolver
\* The call of the single caller, and whether it has returned.
Resolver == last.call[1]

ResolverReturned == last.op = "SetPhotoPrimary" /\ Resolver.pc = "done"

\* The files table as it was when the calls began.
FilesAtStart == last.stores[1].files

FilesOf(p) == {u \in DOMAIN files : files[u].photo = p}

\* JPEG-type files among the non-missing files of photo p.
NonMissingJpegs(p) == {u \in FilesOf(p) : ~files[u].missing /\ files[u].type = "jpg"}

IsWidestIn(u, S) == u \in S /\ \A v \in S : files[v].width <= files[u].width

\* C1 as claimed: after SetPhotoPrimary(photoUID, "") on a photo with at
\* least one non-missing file, exactly one file of the photo is primary and
\* it is a widest JPEG among the photo's non-missing files.  Read for the
\* calls that return success, on photos that have a non-missing JPEG, no
\* soft-deleted file and no file whose UID is empty.
C1_AsClaimed ==
    (/\ ResolverReturned
     /\ Resolver.fileUID = ""
     /\ Resolver.err = ""
     /\ FilesOf(Resolver.photoUID) \subseteq ScopedFiles(files) \ {""}
     /\ NonMissingJpegs(Resolver.photoUID) # {})
    => \E u \in FilesOf(Resolver.photoUID) :
        /\ PrimariesOf(files, Resolver.photoUID) = {u}
        /\ IsWidestIn(u, NonMissingJpegs(Resolver.photoUID))

\* C2 as claimed: a call with a candidate file that returns success leaves the
\* candidate as the one and only primary file of the photo, whatever file
\* the candidate names.  Read on photos without soft-deleted file.
C2_AsClaimed ==
    (/\ ResolverReturned
     /\ Resolver.fileUID # ""
     /\ FilesOf(Resolver.photoUID) \subseteq ScopedFiles(files)
     /\ Resolver.err = "")
    => PrimariesOf(files, Resolver.photoUID) = {Resolver.fileUID}

\* C3: a call without candidate on a photo without non-missing JPEG, or with
\* an empty photo UID, returns an error and has changed no primary flag.
C3_NoCandidateNoChange ==
    (/\ ResolverReturned
     /\ Resolver.fileUID = ""
     /\ \/ Resolver.photoUID = ""
        \/ NonMissingJpegs(Resolver.photoUID) = {})
    => /\ Resolver.err # ""
       /\ \A u \in DOMAIN files : files[u].primary = FilesAtStart[u].primary

\* The resolver has refused a photo whose only non-missing file is not a
\* JPEG and which has a primary file.
C3_Witness ==
    /\ ResolverReturned
    /\ Resolver.fileUID = ""
    /\ Resolver.err = "can't find primary file"
    /\ \E u \in FilesOf(Resolver.photoUID) : ~files[u].missing /\ files[u].type # "jpg"
    /\ PrimariesOf(files, Resolver.photoUID) # {}

\* ------------------------------------ claims on the order of the two writes
\* C21: within one SetPhotoPrimary call, with no other writer and a photo
\* that starts with at most one primary file, a primary flag is set only
\* after the statement that clears the other files of the photo has been
\* issued; the state between the two writes has at most one primary file
\* for the photo (none but the chosen file among the rows the store's scoped
\* handle sees, when the clearing statement was executed); and neither write
\* changes a file of another photo.
C21_ClearBeforeSet ==
    [][(last'.op = "SetPhotoPrimary")
       => /\ (\E u \in DOMAIN files : files'[u].primary /\ ~files[u].primary)
                => Resolver.pc = "cleared"
          /\ (\E u \in DOMAIN files : ~files'[u].primary /\ files[u].primary)
                => Resolver.pc = "chosen"
          /\ last'.call[1].pc = "cleared"
                => /\ Cardinality(PrimariesOf(files', Resolver.photoUID)) <= 1
                   /\ "clear" \notin last'.call[1].failed
                        => PrimariesOf(files', Resolver.photoUID) \cap ScopedFiles(files')
                                \subseteq {Resolver.chosen}
          /\ \A u \in DOMAIN files :
                files[u].photo # Resolver.photoUID => files'[u] = files[u]]_vars

\* A call has moved the flag: the photo's primary was another file, no file
\* of the photo was primary between the two writes, and the chosen file is
\* the primary now, beside a primary file of the other photo.
C21_Witness ==
    /\ ResolverReturned
    /\ Resolver.err = ""
    /\ PrimariesOf(FilesAtStart, Resolver.photoUID) # {}
    /\ Resolver.chosen \notin PrimariesOf(FilesAtStart, Resolver.photoUID)
    /\ Resolver.between = {}
    /\ PrimariesOf(files, Resolver.photoUID) = {Resolver.chosen}
    /\ \E u \in DOMAIN files : files[u].photo # Resolver.photoUID /\ files[u].primary

\* ------------------------------------------ claims on concurrent resolvers
\* Both callers have returned success, every statement of theirs was
\* executed, and each candidate is a file of the photo that the store's
\* scoped handle saw from the start on.
BothReturned ==
    /\ last.op = "SetPhotoPrimary"
    /\ \A i \in Callers :
        /\ last.call[i].pc = "done"
        /\ last.call[i].err = ""
        /\ last.call[i].failed = {}
        /\ last.call[i].fileUID \in ScopedFiles(FilesAtStart)
        /\ files[last.call[i].fileUID].photo = RacePhotoUID

\* C19: two SetPhotoPrimary calls for one photo with different candidates.
\* When their updates interleave (one caller clears while the other stands
\* between its two updates) both return success and both candidates are
\* flagged primary; when the calls are serialized the photo ends with exactly
\* one primary file, the candidate of the later call.  Other writers may
\* rename a file or record a file error meanwhile.
C19_RaceOnPrimary ==
    BothReturned
    => LET flagged == PrimariesOf(files, RacePhotoUID) \cap ScopedFiles(FilesAtStart)
           later == last.call[last.order[Len(last.order)]].fileUID
       IN  /\ last.overlapped
                => flagged = {last.call[i].fileUID : i \in Callers}
           /\ ~last.overlapped => flagged = {later}
           /\ (~last.overlapped
               /\ \A u \in DOMAIN files :
                    files[u].photo = RacePhotoUID => u \in ScopedFiles(FilesAtStart))
                => PrimariesOf(files, RacePhotoUID) = {later}

\* The unsafe interleaving has happened: both callers returned success and
\* the photo has two files flagged primary.
C19_Witness ==
    /\ BothReturned
    /\ last.overlapped
    /\ Cardinality(PrimariesOf(files, RacePhotoUID)) = 2

\* The serialized case has happened as well, over a photo whose earlier
\* primary file is neither candidate, while another writer renamed a file.
C19_WitnessSerialized ==
    /\ BothReturned
    /\ ~last.overlapped
    /\ Cardinality(PrimariesOf(files, RacePhotoUID)) = 1
    /\ \A u \in DOMAIN files : files[u].photo = RacePhotoUID
    /\ \E u \in PrimariesOf(FilesAtStart, RacePhotoUID) :
            \A i \in Callers : last.call[i].fileUID # u
    /\ Len(last.stores) > 1

\* ------------------------------------------- claims on the index builder
IndexReturned == last.op = "IndexedFiles" /\ last.pc = "done" /\ last.err = ""

\* The file rows that are neither missing nor soft-deleted.
LiveFiles == {u \in DOMAIN files : ~files[u].missing /\ ~files[u].deleted}

FileKey(u) == Join(files[u].root, files[u].name)

LedgerKey(r) == Join(r.root, r.name)

\* C7: the snapshot IndexedFiles returns has one entry per joined root+name
\* key of the ledger rows and of the file rows that are neither missing nor
\* soft-deleted, and no other entry; where such a file row has the key the
\* value is the modification time of a file row with that key, elsewhere that
\* of a ledger row; a ledger row (A, b.jpg, 100) and an indexed file
\* (A, b.jpg, 200) give the one entry A/b.jpg -> 200.
C7_SnapshotOverlay ==
    IndexReturned =>
        /\ DOMAIN last.result =
                {LedgerKey(r) : r \in duplicates} \cup {FileKey(u) : u \in LiveFiles}
        /\ \A k \in DOMAIN last.result :
                IF \E u \in LiveFiles : FileKey(u) = k
                THEN \E u \in LiveFiles : FileKey(u) = k /\ last.result[k] = files[u].modTime
                ELSE \E r \in duplicates : LedgerKey(r) = k /\ last.result[k] = r.modTime
        /\ (/\ [root |-> <<"A">>, name |-> <<"b.jpg">>, modTime |-> 100] \in duplicates
            /\ \E u \in LiveFiles : FileKey(u) = <<"A", "b.jpg">>
            /\ \A u \in LiveFiles : FileKey(u) = <<"A", "b.jpg">> => files[u].modTime = 200)
           => /\ <<"A", "b.jpg">> \in DOMAIN last.result
              /\ last.result[<<"A", "b.jpg">>] = 200

\* The snapshot of a store that holds the ledger row (A, b.jpg, 100), the
\* indexed file (A, b.jpg, 200) and a missing or soft-deleted file row whose
\* key has no entry.
C7_Witness ==
    /\ IndexReturned
    /\ [root |-> <<"A">>, name |-> <<"b.jpg">>, modTime |-> 100] \in duplicates
    /\ \E u \in LiveFiles :
        /\ files[u].root = <<"A">>
        /\ files[u].name = <<"b.jpg">>
        /\ files[u].modTime = 200
    /\ last.result[<<"A", "b.jpg">>] = 200
    /\ \E u \in DOMAIN files \ LiveFiles : FileKey(u) \notin DOMAIN last.result


\* --------------------------------- claims on the index builder under writers
\* C20 as claimed: the map IndexedFiles returns while other writers commit
\* is the snapshot (ledger rows overlaid by the non-missing, not soft-deleted
\* file rows) of the store as it was at one instant between the start and
\* the end of the call.
C20_AsClaimed ==
    IndexReturned
    => \E k \in 1..Len(last.stores) :
            last.result \in Snapshots(last.stores[k].files, last.stores[k].duplicates)


\* ------------------------------------------ claims on the batch mutator
BatchOps == {"archive", "restore", "approve", "albums", "private", "labels", "delete"}

\* The identifier list a handler reads from the selection.
KindOf(op) == IF op = "albums" THEN "Albums" ELSE IF op = "labels" THEN "Labels" ELSE "Photos"

IsPermutation(a, b) ==
    /\ Len(a) = Len(b)
    /\ \A x \in SeqToSet(a) \cup SeqToSet(b) :
        Cardinality({i \in 1..Len(a) : a[i] = x}) = Cardinality({i \in 1..Len(b) : b[i] = x})

Count(trace, token) == Cardinality({i \in 1..Len(trace) : trace[i] = token})

Positions(trace, tokens) == {i \in 1..Len(trace) : trace[i] \in tokens}

\* The one request of SpecCall.
Req == last.call[1]

\* The handler has taken up the request.
Taken(c) == c.op \in BatchOps /\ c.pc # "none"

\* The request has been answered.
Done(c) == c.op \in BatchOps /\ c.pc = "returned"

\* The request has been answered 200 by the handler op.
Answered(c, op) == c.op = op /\ c.pc = "returned" /\ c.status = "ok"

\* No statement of another request was issued between the receipt of
\* request i and now: every other request was answered before, or has not
\* been received.
Alone(i) ==
    \A j \in DOMAIN last.call \ {i} :
        last.call[j].pc = "none" \/ j \in last.call[i].after

\* Request 2 was received after request 1 had been answered.
OneThenTwo == 1 \in last.call[2].after

Selected(c) == SeqToSet(c.body.f.Photos)

\* The request did nothing to the store and issued and published nothing.
Untouched(c) ==
    /\ c.pc = "returned"
    /\ c.trace = <<>>
    /\ c.events = <<>>
    /\ BatchStore = c.start

\* C4 as claimed: an archive of a non-empty selection and, after it, a
\* restore of the same selection, both acknowledged, leave no selected photo
\* soft-deleted, and the two calls have emitted one "archived" and one
\* "restored" event, each listing a permutation of the selection.
C4_AsClaimed ==
    LET a == last.call[1]
        r == last.call[2]
    IN  (/\ Answered(a, "archive")
         /\ Answered(r, "restore")
         /\ OneThenTwo
         /\ r.body.f.Photos = a.body.f.Photos)
        => /\ \A u \in Selected(r) \cap DOMAIN photos : ~photos[u].deleted
           /\ Len(a.events) = 1
           /\ a.events[1].kind = "archived"
           /\ IsPermutation(a.events[1].ids, a.body.f.Photos)
           /\ Len(r.events) = 1
           /\ r.events[1].kind = "restored"
           /\ IsPermutation(r.events[1].ids, a.body.f.Photos)

\* C5: a toggle whose statement met no store error, served with no statement
\* of another request in between, has inverted the private flag of every
\* photo the selection names that is not soft-deleted (the rows the
\* statement matches) and has left every other private flag as it was; a
\* second toggle of the same photos, served after the first, returns every
\* private flag to its value before the first.
C5_TogglePrivacy ==
    /\ \A i \in DOMAIN last.call :
        (Answered(last.call[i], "private") /\ Alone(i))
        => LET c == last.call[i] IN
           /\ DOMAIN photos = DOMAIN c.start.photos
           /\ \A u \in DOMAIN photos :
                photos[u].private =
                    IF u \in Selected(c) /\ ~c.start.photos[u].deleted
                    THEN ~c.start.photos[u].private
                    ELSE c.start.photos[u].private
    /\ (/\ Answered(last.call[1], "private")
        /\ Answered(last.call[2], "private")
        /\ OneThenTwo
        /\ Selected(last.call[1]) = Selected(last.call[2]))
       => \A u \in DOMAIN photos :
            photos[u].private = last.call[1].start.photos[u].private

\* The second of two toggles of p1 has been acknowledged: p1, which the
\* first made private, is public again, and p2 is outside the selection.
C5_Witness ==
    /\ Answered(last.call[1], "private")
    /\ Answered(last.call[2], "private")
    /\ OneThenTwo
    /\ Selected(last.call[1]) = {"p1"}
    /\ Selected(last.call[2]) = {"p1"}
    /\ last.call[2].start.photos["p1"].private
    /\ ~photos["p1"].private
    /\ "p2" \in DOMAIN photos

\* The selection of an authorized, well-formed request names no identifier
\* of the kind the operation reads.
EmptyOfKind(c) == c.auth /\ c.body.ok /\ Len(c.body.f[KindOf(c.op)]) = 0

\* C6 as claimed: a request whose selection names no identifier of the kind
\* the operation reads is answered bad request, with no store statement, no
\* count recomputation, no event and every table as it was.  Read for the
\* requests of an authorized caller.
C6_AsClaimed ==
    (Taken(Req) /\ EmptyOfKind(Req))
    => Req.status = "bad request" /\ Untouched(Req)

\* C6 amended: an authorized request whose selection names no identifier of
\* the kind the operation reads is answered bad request, except that a
\* permanent delete on a read-only store or with deletion disabled is
\* answered feature disabled; either way no store statement is issued, no
\* count is recomputed, no event is emitted and every table is as it was.
C6_EmptySelectionRejected ==
    (Taken(Req) /\ EmptyOfKind(Req))
    => /\ Req.status =
            IF Req.op = "delete" /\ (Req.conf.readOnly \/ ~Req.conf.delete)
            THEN "feature disabled"
            ELSE "bad request"
       /\ Untouched(Req)

\* An archive request that names an album and no photo has been rejected.
C6_Witness ==
    /\ Req.op = "archive"
    /\ Req.auth
    /\ Req.body = Body(Selection(<<>>, <<"a1">>, <<>>))
    /\ Req.pc = "returned"
    /\ Req.status = "bad request"

\* C8: a permanent delete in which the removal fails for some of the photos
\* and succeeds for others goes on after each failure, removes exactly the
\* photos whose removal succeeded, keeps the others as they were, emits one
\* "deleted" event listing exactly the removed photos and recomputes the
\* counts once.
C8_PartialDelete ==
    LET matched == Selected(Req) \cap DOMAIN Req.start.photos
        removed == matched \ Req.failing
    IN  (/\ Answered(Req, "delete")
         /\ Req.failing # {}
         /\ removed # {})
        => /\ DOMAIN photos = DOMAIN Req.start.photos \ removed
           /\ \A u \in DOMAIN photos : photos[u] = Req.start.photos[u]
           /\ Len(Req.events) = 1
           /\ Req.events[1].kind = "deleted"
           /\ Req.events[1].entity = "photos"
           /\ SeqToSet(Req.events[1].ids) = removed
           /\ Len(Req.events[1].ids) = Cardinality(removed)
           /\ Count(Req.trace, "recount") = 1
           /\ Count(Req.trace, "notify") = 1

\* A permanent delete of p1 and p2 has failed on p1, the first in store
\* order, and has then removed p2.
C8_Witness ==
    /\ Answered(Req, "delete")
    /\ Req.failing = {"p1"}
    /\ "p1" \in DOMAIN photos
    /\ "p2" \in DOMAIN Req.start.photos
    /\ "p2" \notin DOMAIN photos
    /\ Req.events = <<Event("deleted", "photos", <<"p2">>)>>

\* C9 as claimed: an acknowledged delete-albums call has removed every
\* selected album row and every join row of a selected album, and nothing
\* else: the other album rows, the join rows of other albums (those of the
\* same photo included) and the photo rows are as they were.
C9_AsClaimed ==
    Answered(Req, "albums")
    => LET sel == SeqToSet(Req.body.f.Albums)
       IN  /\ albums = Req.start.albums \ sel
           /\ photoAlbums = {r \in Req.start.photoAlbums : r.album \notin sel}
           /\ photos = Req.start.photos
           /\ labels = Req.start.labels

\* C10 as claimed: after an acknowledged archive call every selected photo
\* that exists is soft-deleted and every join row of a selected photo is
\* hidden; no album row and no join row is deleted, and the join rows of the
\* other photos are as they were.
C10_AsClaimed ==
    Answered(Req, "archive")
    => LET sel == Selected(Req)
       IN  /\ \A u \in sel \cap DOMAIN photos : photos[u].deleted
           /\ \A r \in photoAlbums : r.photo \in sel => r.hidden
           /\ albums = Req.start.albums
           /\ {<<r.photo, r.album>> : r \in photoAlbums} =
                {<<r.photo, r.album>> : r \in Req.start.photoAlbums}
           /\ \A r \in Req.start.photoAlbums : r.photo \notin sel => r \in photoAlbums

\* C11: a request the access check denies is answered unauthorized by every
\* batch operation, whatever its body (malformed, empty or naming entities)
\* and whatever the deletion gate; the call issues no store read or write,
\* no removal, no count recomputation, emits no event and leaves every table
\* as it was.
C11_DeniedFirst ==
    (Taken(Req) /\ ~Req.auth)
    => Req.status = "unauthorized" /\ Untouched(Req)

\* A permanent delete by a denied caller, sent with an empty selection while
\* the store is read-only, has been answered unauthorized.
C11_Witness ==
    /\ Req.op = "delete"
    /\ ~Req.auth
    /\ Req.conf.readOnly
    /\ Req.body = Body(EmptySelection)
    /\ Req.pc = "returned"
    /\ Req.status = "unauthorized"

\* The receipt of the request of record t by its handler, the configuration
\* being conf.
ReceivedAs(t, conf) ==
    IF t.op = "archive" THEN ArchiveReceived(1, t.auth, conf, t.body)
    ELSE IF t.op = "restore" THEN RestoreReceived(1, t.auth, conf, t.body)
    ELSE IF t.op = "approve" THEN ApproveReceived(1, t.auth, conf, t.body)
    ELSE IF t.op = "albums" THEN AlbumsReceived(1, t.auth, conf, t.body)
    ELSE IF t.op = "private" THEN PrivateReceived(1, t.auth, conf, t.body)
    ELSE LabelsReceived(1, t.auth, conf, t.body)

\* The next statement of the handler of a request whose record is c.
StatementOf(c) ==
    \/ BatchPhotosArchive(1, c)
    \/ BatchPhotosRestore(1, c)
    \/ BatchPhotosApprove(1, c)
    \/ BatchAlbumsDelete(1, c)
    \/ BatchPhotosPrivate(1, c)
    \/ BatchLabelsDelete(1, c)

\* C12: an authorized permanent delete on a read-only store or with the
\* delete feature disabled is answered feature disabled, removes nothing,
\* recomputes no count and emits no event; and whatever step the handler of
\* any other operation takes on a request (its receipt or one of its
\* statements), it takes the same step (same tables, same answer, same
\* statements issued, same event) under every value of the gate.
C12_GateOnlyForDelete ==
    [][\A t \in {last'.call[1]}, st \in {BatchStore'} :
        IF t.op = "delete"
        THEN (t.auth /\ (t.conf.readOnly \/ ~t.conf.delete))
             => /\ t.pc = "returned"
                /\ t.status = "feature disabled"
                /\ t.trace = <<>>
                /\ t.events = <<>>
                /\ st = t.start
        ELSE \A readOnly \in BOOLEAN, featDelete \in BOOLEAN :
                LET conf == Conf(t.conf.backup, readOnly, featDelete)
                IN  ENABLED (/\ IF Req.pc = "none"
                                THEN ReceivedAs(t, conf)
                                ELSE StatementOf([Req EXCEPT !.conf = conf])
                             /\ BatchStore' = st
                             /\ last'.call[1] = [t EXCEPT !.conf = conf])]_vars

\* A permanent delete of an existing photo has been refused because the
\* delete feature is disabled, the store being writable.
C12_Witness ==
    /\ Req.op = "delete"
    /\ Req.auth
    /\ ~Req.conf.readOnly
    /\ ~Req.conf.delete
    /\ Req.pc = "returned"
    /\ Req.status = "feature disabled"
    /\ Selected(Req) \cap DOMAIN photos # {}

\* An archive served while the store is read-only and the delete feature
\* is disabled has soft-deleted the photo it names.
C12_WitnessOther ==
    /\ Answered(Req, "archive")
    /\ Req.conf.readOnly
    /\ ~Req.conf.delete
    /\ \E u \in Selected(Req) \cap DOMAIN photos :
        photos[u].deleted /\ ~Req.start.photos[u].deleted

\* The identifiers of one kind that named a row of the store when the
\* request was received.
Existing(c, entity) ==
    IF entity = "photos" THEN DOMAIN c.start.photos
    ELSE IF entity = "albums" THEN c.start.albums
    ELSE c.start.labels

\* C13 as claimed: every identifier an emitted event carries names an entity
\* that existed when the call was made and whose per-item mutation did not
\* fail in the call.
C13_AsClaimed ==
    Done(Req)
    => \A i \in 1..Len(Req.events) :
        \A u \in SeqToSet(Req.events[i].ids) :
            /\ u \in Existing(Req, Req.events[i].entity)
            /\ u \notin Req.failing

\* C14 as claimed: a call that is acknowledged has emitted exactly one event,
\* and a call that is answered with a failure has emitted none.  Read, for
\* the acknowledged calls, for those that changed a row of the store.
C14_AsClaimed ==
    Done(Req)
    => /\ (Req.status = "ok" /\ BatchStore # Req.start) => Len(Req.events) = 1
       /\ Req.status # "ok" => Req.events = <<>>

\* C15: an approve call that has resolved its selection approves every
\* resolved photo whose approval does not fail, whichever of them fail, and
\* changes no other photo; it is acknowledged and its one event is "updated"
\* for photos, listing exactly the photos it approved.
C15_ApprovePartial ==
    (/\ Done(Req) /\ Req.op = "approve" /\ Req.auth /\ Req.body.ok
     /\ Req.body.f.Photos # <<>> /\ Req.fault = {})
    => LET resolved == Selected(Req) \cap DOMAIN Req.start.photos
           approved == resolved \ Req.failing
       IN  /\ Req.status = "ok"
           /\ DOMAIN photos = DOMAIN Req.start.photos
           /\ \A u \in DOMAIN photos :
                photos[u] = IF u \in approved
                            THEN [Req.start.photos[u] EXCEPT !.approved = TRUE]
                            ELSE Req.start.photos[u]
           /\ Len(Req.events) = 1
           /\ Req.events[1].kind = "updated"
           /\ Req.events[1].entity = "photos"
           /\ SeqToSet(Req.events[1].ids) = approved
           /\ Len(Req.events[1].ids) = Cardinality(approved)

\* An approve of p1 and p2 in which the approval of p1, the first in store
\* order, failed: p2 is approved and the event lists p2 alone.
C15_Witness ==
    /\ Answered(Req, "approve")
    /\ Req.failing = {"p1"}
    /\ "p2" \in DOMAIN photos
    /\ photos["p2"].approved
    /\ ~photos["p1"].approved
    /\ Req.events = <<Event("updated", "photos", <<"p2">>)>>

\* The write statements of archive, restore and toggle-privacy on the direct
\* store path.
WriteFaults == {"delete", "hide", "restore", "private"}

\* C16 as claimed: an archive, restore or toggle-privacy call in which a
\* store write statement reports an error is answered save failed at once:
\* it emits no event, recomputes no count and issues no statement after the
\* failed one; the update of the hidden flag of the memberships is one such
\* statement.
C16_AsClaimed ==
    (Req.op \in {"archive", "restore", "private"} /\ Req.fault \cap WriteFaults # {})
    => /\ Req.pc = "returned"
       /\ Req.status = "save failed"
       /\ Req.events = <<>>
       /\ Count(Req.trace, "recount") = 0
       /\ Req.trace # <<>>
       /\ Req.trace[Len(Req.trace)] = "write"

\* C17 as claimed: an archive or a restore without backup files, or a
\* delete-albums call, whose non-empty selection names no existing entity
\* and which meets no store error is answered not found and emits no event.
C17_AsClaimed ==
    (/\ Done(Req)
     /\ Req.auth
     /\ Req.body.ok
     /\ Req.fault = {}
     /\ \/ Req.op \in {"archive", "restore"} /\ ~Req.conf.backup
        \/ Req.op = "albums"
     /\ Req.body.f[KindOf(Req.op)] # <<>>
     /\ SeqToSet(Req.body.f[KindOf(Req.op)])
            \cap Existing(Req, IF Req.op = "albums" THEN "albums" ELSE "photos") = {})
    => /\ Req.status = "not found"
       /\ Req.events = <<>>

\* ----------------------------------------- claims on the count recomputation
RecountingOps == {"archive", "restore", "private", "delete"}

\* C22: in archive, restore, toggle-privacy and permanent delete the photo
\* counts are recomputed at most once per call, whatever the number of
\* photos, and no row mutation of the call is issued after the
\* recomputation; the notifier event never comes before it.  A call
\* answered 200 has recomputed them (permanent delete: when it removed a
\* photo) and has published its event after that (toggle-privacy publishes
\* none when it cannot read the photos back); a call answered with a failure
\* has not recomputed them.
C22_RecountOnce ==
    Req.op \in RecountingOps
    => LET t == Req.trace
           recounts == Positions(t, {"recount"})
           mutations == Positions(t, {"write", "remove"})
           notified == Positions(t, {"notify"})
       IN  /\ Cardinality(recounts) <= 1
           /\ \A i \in recounts : \A j \in mutations : j < i
           /\ \A j \in notified : \E i \in recounts : i < j
           /\ Req.pc = "returned" =>
                /\ (recounts # {} /\ ~(Req.op = "private" /\ "select" \in Req.fault))
                        => notified # {}
                /\ (Req.status = "ok" /\ ~(Req.op = "delete" /\ Req.events = <<>>))
                        => recounts # {}
                /\ Req.status # "ok" => recounts = {}

\* An archive call has archived two photos one by one and recomputed the
\* counts once, after both, before its event.
C22_Witness ==
    /\ Answered(Req, "archive")
    /\ Req.conf.backup
    /\ Count(Req.trace, "write") = 2
    /\ Count(Req.trace, "yaml") = 2
    /\ Count(Req.trace, "recount") = 1
    /\ Count(Req.trace, "notify") = 1

\* ------------------------------------------- claims on archive, then restore
\* C23: a restore on the direct store path, served with no statement of
\* another request in between, has written only the soft-delete timestamp
\* of the selected photos and has left every album membership as it was; so
\* when it follows an archive of the same selection on the direct path that
\* met no store error, every photo is back as it was before the archive
\* while the memberships of the selected photos, none of which was hidden
\* before the archive, are hidden.
C23_RestoreKeepsHidden ==
    /\ \A i \in DOMAIN last.call :
        LET c == last.call[i] IN
        (c.op = "restore" /\ ~c.conf.backup /\ c.pc = "returned" /\ Alone(i))
        => /\ photoAlbums = c.start.photoAlbums
           /\ albums = c.start.albums
           /\ labels = c.start.labels
           /\ DOMAIN photos = DOMAIN c.start.photos
           /\ \A u \in DOMAIN photos :
                photos[u] = IF c.status = "ok" /\ u \in Selected(c)
                            THEN [c.start.photos[u] EXCEPT !.deleted = FALSE]
                            ELSE c.start.photos[u]
    /\ LET a == last.call[1]
           r == last.call[2]
       IN  (/\ Answered(a, "archive")
            /\ ~a.conf.backup
            /\ a.fault = {}
            /\ Answered(r, "restore")
            /\ ~r.conf.backup
            /\ OneThenTwo
            /\ Selected(a) = Selected(r))
           => /\ photos = a.start.photos
              /\ \A u \in DOMAIN photos : ~photos[u].deleted
              /\ \A x \in photoAlbums : x.hidden = (x.photo \in Selected(r))

\* A restore on the direct path, served after an archive of the same
\* photos, has been acknowledged: it has brought back a photo whose album
\* membership is still hidden.
C23_Witness ==
    /\ Answered(last.call[1], "archive")
    /\ Answered(last.call[2], "restore")
    /\ ~last.call[2].conf.backup
    /\ OneThenTwo
    /\ \E x \in photoAlbums :
        /\ x.photo \in Selected(last.call[2])
        /\ x.hidden
        /\ last.call[2].start.photos[x.photo].deleted
        /\ ~photos[x.photo].deleted
\* ------------------------------------------- claims on the credential check
\* The row of the admin, when the scoped handle sees it.
AdminRow(us) == {DefaultUsers.Admin.id} \cap ScopedUsers(us)

\* Caller i holds a User value that carries the primary key of the admin
\* and a UID for which a password is stored.
OnAdmin(i) ==
    /\ last.call[i].m.id = DefaultUsers.Admin.id
    /\ last.call[i].m.userUID \in DOMAIN passwords

\* Caller i begins a check that goes on to the store: a non-empty password
\* on a registered user value.
Slept(i) == Idle(i) /\ last'.call[i].pc = "slept"

\* A check of caller i that went on to the store returns.
Checked(i) ==
    /\ last.call[i].op = "InvalidPassword"
    /\ last.call[i].pc \in {"slept", "found"}
    /\ last'.call[i].pc = "idle"

\* C18 as claimed: after every check the persisted counter is the number of
\* failed checks since the last successful one, and the delay applied before
\* a check is 5 seconds times the persisted counter.  Read for the checks
\* made one at a time on the admin, on a row that no statement but the
\* updates of the checks has changed.
C18_AsClaimed ==
    [][\A i \in LoginCallers, id \in AdminRow(users) :
        /\ (Checked(i) /\ OnAdmin(i) /\ last'.clean /\ last'.serial)
                => users'[id].loginAttempts = last'.streak
        /\ (Slept(i) /\ OnAdmin(i) /\ last'.clean /\ last'.serial)
                => last'.call[i].delay = SleepSeconds * users[id].loginAttempts]_vars

====
